---- MODULE Spec2Model ----
(***************************************************************************)
(* A model of the SyncBase synchronisation engine: SyncProject             *)
(* (sync_project.py), SyncItem / ItemState (sync_item.py) and the calls    *)
(* they make on YandexDiskClient (yandex_disk_client.py).                  *)
(*                                                                         *)
(* A file's content and its md5 digest are one abstract value: a positive  *)
(* integer for project files, a negative one for the successive contents   *)
(* of .project_cache.json (each write carries a new timestamp), 0 for the  *)
(* empty digest "" of a fresh ItemState.                                   *)
(***************************************************************************)
EXTENDS Integers, Sequences, FiniteSets, TLC

\* ------------------------------------------------------------------ bounds

\* Distinct contents a project file may have.
MaxHash == 2
\* Consecutive invocations of the command line (save / load) in one behaviour.
MaxRuns == 2
\* Transient API failures the environment may inject in one behaviour.
MaxFaults == 1

\* ------------------------------------------------------- program constants

THREADS_COUNT == 16

\* ------------------------------------------------------------------- paths
\* A relative path is the sequence of its segments; Root is "".

Root == <<>>
SyncIgnoreFile == <<".syncignore">>
CacheFile == <<".project_cache.json">>
ATxt == <<"a.txt">>
BTxt == <<"b.txt">>
Docs == <<"docs">>
OldMd == <<"docs", "old.md">>

\* The paths of the project tree the initial states are built from.
BasePaths == {SyncIgnoreFile, CacheFile, ATxt, BTxt, Docs, OldMd}

\* name + ".tmp", tabulated over the names of the model.
TmpName(s) ==
    CASE s = ".syncignore" -> ".syncignore.tmp"
      [] s = ".project_cache.json" -> ".project_cache.json.tmp"
      [] s = "a.txt" -> "a.txt.tmp"
      [] s = "b.txt" -> "b.txt.tmp"
      [] s = "docs" -> "docs.tmp"
      [] s = "old.md" -> "old.md.tmp"
      [] s = ".syncignore.tmp" -> ".syncignore.tmp.tmp"
      [] s = ".project_cache.json.tmp" -> ".project_cache.json.tmp.tmp"
      [] s = "a.txt.tmp" -> "a.txt.tmp.tmp"
      [] s = "b.txt.tmp" -> "b.txt.tmp.tmp"
      [] s = "docs.tmp" -> "docs.tmp.tmp"
      [] s = "old.md.tmp" -> "old.md.tmp.tmp"

\* Names in ascending string order (Python compares paths part by part).
NameOrder ==
    << ".project_cache.json", ".project_cache.json.tmp", ".project_cache.json.tmp.tmp",
       ".syncignore", ".syncignore.tmp", ".syncignore.tmp.tmp",
       "a.txt", "a.txt.tmp", "a.txt.tmp.tmp",
       "b.txt", "b.txt.tmp", "b.txt.tmp.tmp",
       "docs", "docs.tmp", "docs.tmp.tmp",
       "old.md", "old.md.tmp", "old.md.tmp.tmp" >>

NameRank(s) == CHOOSE i \in 1..Len(NameOrder) : NameOrder[i] = s

Parent(p) == SubSeq(p, 1, Len(p) - 1)

\* cloud_path.as_posix() + ".tmp"
TmpPath(p) == Parent(p) \o <<TmpName(p[Len(p)])>>

\* Every path a SyncItem can exist for: the project paths and the temporary
\* names an interrupted upload can leave in the cloud.
AllPaths == BasePaths \cup {TmpPath(p) : p \in BasePaths}

\* The cloud also holds the temporary name of an upload of a path of AllPaths.
CloudPaths == AllPaths \cup {TmpPath(p) : p \in AllPaths}

IsPrefix(p, q) == Len(p) <= Len(q) /\ SubSeq(q, 1, Len(p)) = p

\* Path.__lt__: lexicographic on the parts.
RECURSIVE PathLess(_, _)
PathLess(p, q) ==
    IF p = <<>> THEN q # <<>>
    ELSE IF q = <<>> THEN FALSE
    ELSE IF p[1] # q[1] THEN NameRank(p[1]) < NameRank(q[1])
    ELSE PathLess(Tail(p), Tail(q))

Min(a, b) == IF a <= b THEN a ELSE b

\* ------------------------------------------------------------ file systems

Kinds == {"empty", "file", "dir"}

Absent == [kind |-> "empty", md5 |-> 0]
Dir == [kind |-> "dir", md5 |-> 0]
File(h) == [kind |-> "file", md5 |-> h]

\* The content set_cache writes at cache-clock t (datetime.now() makes every
\* write differ from all earlier ones).
CacheContent(t) == 0 - t

\* rmtree / unlink / DELETE: the entry and everything beneath it disappear.
RemoveSubtree(fs, p) ==
    [q \in DOMAIN fs |-> IF IsPrefix(p, q) THEN Absent ELSE fs[q]]

\* TRUE iff a proper ancestor of p is a file.
FileAbove(fs, p) ==
    \E n \in 0..(Len(p) - 1) : fs[SubSeq(p, 1, n)].kind = "file"

\* mkdir(parents=True): p and its missing ancestors become directories.
MkdirP(fs, p) ==
    [q \in DOMAIN fs |->
        IF IsPrefix(q, p) /\ fs[q].kind = "empty" THEN Dir ELSE fs[q]]

\* Writing a file at p replaces what was there (and what was beneath it).
PutFile(fs, p, node) == [RemoveSubtree(fs, p) EXCEPT ![p] = node]

TreeOK(fs) ==
    \A p \in DOMAIN fs :
        (p # Root /\ fs[p].kind # "empty") => fs[Parent(p)].kind = "dir"

\* ----------------------------------------------------------- ignore filter

\* One parsed rule of .syncignore. pattern: the rule's path without a trailing
\* slash, as segments; a literal rule (absolute = TRUE).
Rule(pat, neg, isdir) ==
    [pattern |-> pat, negate |-> neg, is_directory |-> isdir, absolute |-> TRUE]

\* A rule with a wildcard ('*', '?' or '['): absolute = FALSE.
Glob(pat, neg) ==
    [pattern |-> pat, negate |-> neg, is_directory |-> FALSE, absolute |-> FALSE]

\* The content local_scan writes into a missing .syncignore: ".git\n".
DefaultIgnoreText == 1

\* A rules text given to parse_rules directly: "build/\n!build/keep.txt\n".
BuildIgnoreText == 3
Build == <<"build">>
BuildKeep == <<"build", "keep.txt">>
BuildX == <<"build", "x.txt">>

\* Two more .syncignore texts: "docs/old.md\n" and "docs\n".
IgnoreOldMdText == 11
IgnoreDocsText == 12

\* SyncIgnore.parse_rules on the .syncignore texts of the model:
\*   content 1 = ".git\n", content 2 = "a.txt\n", any other = "# no rules\n".
parse_rules(text) ==
    CASE text = 1 -> << Rule(<<".git">>, FALSE, FALSE) >>
      [] text = 2 -> << Rule(ATxt, FALSE, FALSE) >>
      [] text = BuildIgnoreText ->
            << Rule(Build, FALSE, TRUE), Rule(BuildKeep, TRUE, FALSE) >>
      [] text = 4 -> << Glob("*.txt", FALSE), Rule(ATxt, TRUE, FALSE) >>
      [] text = 5 -> << Rule(BuildKeep, TRUE, FALSE), Rule(Build, FALSE, FALSE) >>
      [] text = 6 -> << Rule(ATxt, FALSE, FALSE), Rule(ATxt, TRUE, FALSE),
                        Glob("*.txt", FALSE) >>
      [] text = 7 -> << Rule(Build, FALSE, FALSE), Glob("*.txt", TRUE),
                        Rule(BuildX, FALSE, FALSE) >>
      [] text = IgnoreOldMdText -> << Rule(<<"docs", "old.md">>, FALSE, FALSE) >>
      [] text = IgnoreDocsText -> << Rule(<<"docs">>, FALSE, FALSE) >>
      [] OTHER -> << >>

\* fnmatch.fnmatch(path, pattern) for the one wildcard pattern of the model,
\* "*.txt" (the star also matches '/'): the path ends in ".txt".
fnmatch(path, pattern) ==
    /\ pattern = "*.txt"
    /\ path # << >>
    /\ path[Len(path)] \in {"a.txt", "b.txt", "keep.txt", "x.txt"}

\* The comparison of one rule with the path: a literal rule matches the
\* path itself and what lies beneath it; a wildcard rule matches when the
\* path, its last name or one of its leading subpaths matches the pattern.
Matched(rule, path) ==
    IF rule.absolute
    THEN IsPrefix(rule.pattern, path)
    ELSE \/ fnmatch(path, rule.pattern)
         \/ fnmatch(<< path[Len(path)] >>, rule.pattern)
         \/ \E n \in 1..Len(path) : fnmatch(SubSeq(path, 1, n), rule.pattern)

\* A loop in which the first matching rule would decide.
RECURSIVE IgnoreLoopFirstMatch(_, _, _, _, _)
IgnoreLoopFirstMatch(rs, i, path, is_directory, ignored) ==
    IF i > Len(rs) THEN ignored
    ELSE IF rs[i].is_directory /\ ~is_directory
         THEN IgnoreLoopFirstMatch(rs, i + 1, path, is_directory, ignored)
    ELSE IF Matched(rs[i], path) THEN ~rs[i].negate
    ELSE IgnoreLoopFirstMatch(rs, i + 1, path, is_directory, ignored)

\* The loop of should_ignore over the rules, in file order: the last matching
\* rule decides.
RECURSIVE IgnoreLoop(_, _, _, _, _)
IgnoreLoop(rs, i, path, is_directory, ignored) ==
    IF i > Len(rs) THEN ignored
    ELSE IF rs[i].is_directory /\ ~is_directory
         THEN IgnoreLoop(rs, i + 1, path, is_directory, ignored)
    ELSE IF Matched(rs[i], path)
         THEN IgnoreLoop(rs, i + 1, path, is_directory, ~rs[i].negate)
    ELSE IgnoreLoop(rs, i + 1, path, is_directory, ignored)

should_ignore(rs, path, is_directory) ==
    IF rs = << >> \/ path = << >> THEN FALSE
    ELSE IgnoreLoop(rs, 1, path, is_directory, FALSE)

\* ---------------------------------------------------------------- SyncItem

\* A SyncItem: present = the path has an entry in sync_items; the two
\* ItemStates are reduced to their type and md5.
NoItem ==
    [present |-> FALSE, local_type |-> "empty", local_md5 |-> 0,
     cloud_type |-> "empty", cloud_md5 |-> 0]

create_item == [NoItem EXCEPT !.present = TRUE]

\* A calc_local_state that would not hash the file.
calc_local_stateUnhashed(item, node) == [item EXCEPT !.local_type = node.kind]

\* SyncItem.calc_local_state: the type always, the md5 only for a file.
calc_local_state(item, node) ==
    [item EXCEPT !.local_type = node.kind,
                 !.local_md5 = IF node.kind = "file" THEN node.md5 ELSE @]

\* One entry of a listing answer: the md5 key is there for files only.
ListingEntry(node) ==
    [type |-> node.kind, has_md5 |-> node.kind = "file", md5 |-> node.md5]

\* ItemState.from_dict on the cloud state: data.get(key, self.key).
from_dict(item, data) ==
    [item EXCEPT !.cloud_type = data.type,
                 !.cloud_md5 = IF data.has_md5 THEN data.md5 ELSE @]

\* ------------------------------------------------------------------- state

VARIABLES
    lfs,            \* the local tree: path -> [kind, md5]
    cfs,            \* the cloud tree
    clock,          \* number of cache contents written so far (datetime.now)
    faults,         \* transient API failures injected so far
    runs,           \* invocations started so far
    op,             \* the running command: "none", "save", "load"
    pc,             \* where the command is
    allOk,          \* no API call of this run has answered a failure
    lfs0,           \* the local tree when this run began
    cfs0,           \* the cloud tree when this run began
    list_failed,    \* the folders whose listing request failed in this run
    wiped,          \* the local root was emptied after this run
    prev,           \* the previous run: [op, ok, lfs0, rules, wiped]
    rules,          \* SyncProject.syncignore.rules
    sync_items,     \* SyncProject.sync_items
    folders_to_scan, scanned_folders, current_batch,    \* the cloud scan
    items_need_for_update,                              \* the 3x3 matrix
    batch,          \* the sorted items of the running multythread_operation
    hstate,         \* per submitted handler: queued, running, put, done, raised
    calls,          \* per path: how often each handler was invoked this run
    returns         \* per path: how often each handler has returned this run

sync_vars ==
    << lfs, cfs, clock, faults, runs, op, pc, allOk, lfs0, cfs0, list_failed, wiped, prev, rules,
       sync_items, folders_to_scan, scanned_folders, current_batch,
       items_need_for_update, batch, hstate, calls, returns >>

\* One call of a method of YandexDiskClient (or of SyncIgnore), followed on
\* its own: fn names the method, "none" while a whole command is followed.
VARIABLES
    fn,             \* the method under call
    rq,             \* _make_request: its arguments, kwargs, loop counter, result
    sent,           \* the HTTP requests issued so far, in order
    slept,          \* the arguments of time.sleep so far, in hundredths of a second
    bo,             \* _calculate_backoff_time: attempt, the jitter drawn, result
    ls,             \* list: the folder, the page limit, offset, all_items
    up,             \* upload: where the call is, its result, the requests made
    ig,             \* should_ignore: the rules text, the candidate, the result
    st,             \* show_status: where the call is, what it reported
    po,             \* the worker pools of a run, one after another, by counts
    cd              \* create_dir: the frames of the recursion, the requests made

request_vars == << rq, sent, slept >>
client_vars == << fn, request_vars, bo, ls, up, ig, st, po, cd >>

vars == << sync_vars, client_vars >>

\* No method is under call.
NoRequest == [pc |-> "none"]
NoCall == [pc |-> "none"]
NoResult == [kind |-> "pending", status |-> 0, retry_after |-> "not passed"]
ClientIdle ==
    /\ fn = "none"
    /\ rq = NoRequest
    /\ sent = << >>
    /\ slept = << >>
    /\ bo = NoCall
    /\ ls = NoCall
    /\ up = NoCall
    /\ ig = NoCall
    /\ st = NoCall
    /\ po = NoCall
    /\ cd = NoCall

Hashes == 1..MaxHash

\* The texts a .syncignore of the initial states may hold (see parse_rules);
\* a project without the file gets the default text from local_scan.
IgnoreTexts == {2}

EmptyMatrix == [lt \in Kinds |-> [ct \in Kinds |-> << >>]]
NoCalls == [p \in AllPaths |-> [remove |-> 0, mkdir |-> 0, transfer |-> 0]]
NoRun == [op |-> "none", ok |-> FALSE, lfs0 |-> << >>, rules |-> << >>, wiped |-> FALSE]

\* ----------------------------------------------------------- initial trees

EmptyLocal == [p \in AllPaths \cup {Root} |-> Absent]
EmptyCloud == [p \in CloudPaths \cup {Root} |-> Absent]

\* A tree over the project paths: fs is Absent everywhere else.
Tree(empty, root, si, cache, a, b, d, f) ==
    [p \in DOMAIN empty |->
        CASE p = Root -> root
          [] p = SyncIgnoreFile -> si
          [] p = CacheFile -> cache
          [] p = ATxt -> a
          [] p = BTxt -> b
          [] p = Docs -> d
          [] p = OldMd -> f
          [] OTHER -> Absent]

FileOrAbsent(hs) == {Absent} \cup {File(h) : h \in hs}

\* docs and docs/old.md: old.md exists only inside a directory docs.
DocsTrees ==
    {<<Absent, Absent>>, <<File(1), Absent>>, <<Dir, Absent>>, <<Dir, File(1)>>}

\* A project whose .syncignore is a directory.
SyncIgnoreIsDir ==
    Tree(EmptyLocal, Dir, Dir, Absent, File(1), Absent, Absent, Absent)

\* The local files hold content 1; the cloud's a.txt ranges over every
\* content, so that it equals or differs from the local one. b.txt is the
\* twin of a.txt and exists only next to it; a local docs directory holds
\* old.md (an empty local directory comes from a load of an empty cloud one).
LocalInits ==
    {EmptyLocal, [EmptyLocal EXCEPT ![Root] = File(1)], SyncIgnoreIsDir} \cup
    { Tree(EmptyLocal, Dir, si, Absent, ab[1], ab[2], df[1], df[2]) :
        si \in FileOrAbsent(IgnoreTexts),
        ab \in {<<Absent, Absent>>, <<File(1), Absent>>, <<File(1), File(1)>>},
        df \in DocsTrees \ {<<Dir, Absent>>} }

\* The cloud after another machine saved a project of one .syncignore twice:
\* its second save uploaded the cache file its first save had written (a
\* content no set_cache of this machine produces).
SavedTwiceCloud ==
    Tree(EmptyCloud, Dir, File(DefaultIgnoreText), File(CacheContent(MaxRuns + 1)),
         Absent, Absent, Absent, Absent)

CloudInits ==
    {EmptyCloud, SavedTwiceCloud} \cup
    { Tree(EmptyCloud, Dir, Absent, Absent, a, Absent, df[1], df[2]) :
        a \in FileOrAbsent(Hashes), df \in DocsTrees }

\* The state of the project before any command has run.
SyncInitRest ==
    /\ clock = 1
    /\ faults = 0
    /\ runs = 0
    /\ op = "none"
    /\ pc = "idle"
    /\ allOk = TRUE
    /\ lfs0 = lfs
    /\ cfs0 = cfs
    /\ list_failed = {}
    /\ wiped = FALSE
    /\ prev = NoRun
    /\ rules = << >>
    /\ sync_items = [p \in AllPaths |-> NoItem]
    /\ folders_to_scan = {}
    /\ scanned_folders = {}
    /\ current_batch = {}
    /\ items_need_for_update = EmptyMatrix
    /\ batch = << >>
    /\ hstate = << >>
    /\ calls = NoCalls
    /\ returns = NoCalls

SyncInit ==
    /\ lfs \in LocalInits
    /\ cfs \in CloudInits
    /\ SyncInitRest

Init == SyncInit /\ ClientIdle

\* -------------------------------------------------------------- local scan

\* _scan_local_items reaches p: p exists, is not ignored, and the walk came
\* down to it through directories that were not ignored either.
RECURSIVE Walked(_, _, _)
Walked(fs, rs, p) ==
    /\ fs[p].kind # "empty"
    /\ ~should_ignore(rs, p, fs[p].kind = "dir")
    /\ \/ Len(p) = 1
       \/ fs[Parent(p)].kind = "dir" /\ Walked(fs, rs, Parent(p))

\* sync_items after _scan_local_items("") on a fresh project.
scan_local_items(fs, rs) ==
    [p \in AllPaths |->
        IF Walked(fs, rs, p) THEN calc_local_state(create_item, fs[p]) ELSE NoItem]

\* The run is over: the last multythread_operation has returned.
AllReturned == \A i \in DOMAIN hstate : hstate[i] \in {"done", "raised"}
RunDone == pc = "transfer" /\ AllReturned

\* A local_scan that would not look at the kind of the root.
RootIsFileUnchecked(fs) == FALSE

\* local_scan: the root path holds a file.
RootIsFile(fs) == fs[Root].kind = "file"

\* A new process: SyncProject.__init__ and then local_scan, for command o.
\* The root is created when missing; a file at the root, or a directory at
\* .syncignore, raises FileExistsError and ends the process.
Begin(o) ==
    /\ pc \in {"idle", "aborted", "raised"} \/ RunDone
    /\ runs < MaxRuns
    /\ runs' = runs + 1
    /\ op' = o
    /\ prev' = IF op = "none" THEN NoRun
               ELSE [op |-> op, ok |-> allOk /\ pc # "aborted", lfs0 |-> lfs0,
                     rules |-> rules, wiped |-> wiped]
    /\ lfs0' = lfs
    /\ cfs0' = cfs
    /\ list_failed' = {}
    /\ wiped' = FALSE
    /\ allOk' = TRUE
    /\ calls' = NoCalls
    /\ returns' = NoCalls
    /\ items_need_for_update' = EmptyMatrix
    /\ batch' = << >>
    /\ hstate' = << >>
    /\ scanned_folders' = {}
    /\ current_batch' = {}
    /\ LET fs1 == IF lfs[Root].kind = "empty" THEN MkdirP(lfs, Root) ELSE lfs
           fs2 == IF fs1[SyncIgnoreFile].kind = "empty"
                  THEN [fs1 EXCEPT ![SyncIgnoreFile] = File(DefaultIgnoreText)]
                  ELSE fs1
           rs == parse_rules(fs2[SyncIgnoreFile].md5)
       IN  IF RootIsFile(lfs)
           THEN /\ pc' = "aborted"
                /\ UNCHANGED << lfs, rules, sync_items, folders_to_scan >>
           ELSE IF fs1[SyncIgnoreFile].kind = "dir"
           THEN /\ pc' = "aborted"
                /\ lfs' = fs1
                /\ UNCHANGED << rules, sync_items, folders_to_scan >>
           ELSE /\ lfs' = fs2
                /\ rules' = rs
                /\ sync_items' = scan_local_items(fs2, rs)
                /\ pc' = IF o = "save" THEN "scanned" ELSE "cloud_scan"
                /\ folders_to_scan' = IF o = "save" THEN {} ELSE {Root}
    /\ UNCHANGED << cfs, clock, faults, client_vars >>

sync_save == Begin("save")
sync_load == Begin("load")

\* set_cache, between the local and the cloud scan of sync_save: the cache
\* file gets a content no earlier write had.
set_cache ==
    /\ pc = "scanned"
    /\ lfs' = IF lfs[CacheFile].kind = "dir" THEN lfs
              ELSE [lfs EXCEPT ![CacheFile] = File(CacheContent(clock))]
    /\ clock' = clock + 1
    /\ pc' = "cloud_scan"
    /\ folders_to_scan' = {Root}
    /\ UNCHANGED << cfs, faults, runs, op, allOk, lfs0, cfs0, list_failed, wiped, prev, rules,
                    sync_items, scanned_folders, current_batch,
                    items_need_for_update, batch, hstate, calls, returns, client_vars >>

\* -------------------------------------------------------------- cloud scan

\* The next wave of _scan_cloud_items_parallel takes every pending folder.
NextWave ==
    /\ pc = "cloud_scan"
    /\ current_batch = {}
    /\ folders_to_scan # {}
    /\ current_batch' = folders_to_scan
    /\ folders_to_scan' = {}
    /\ UNCHANGED << lfs, cfs, clock, faults, runs, op, pc, allOk, lfs0, cfs0, list_failed, wiped,
                    prev, rules, sync_items, scanned_folders,
                    items_need_for_update, batch, hstate, calls, returns, client_vars >>

Children(fs, f) ==
    {p \in DOMAIN fs : p # Root /\ Parent(p) = f /\ fs[p].kind # "empty"}

\* YandexDiskClient.list: the entries of the folder, or [] when the request
\* failed or did not answer 200.
list(f, failed) == IF failed \/ cfs[f].kind # "dir" THEN {} ELSE Children(cfs, f)

\* The entries process_folder_items keeps: those the filter does not ignore.
Kept(listed) ==
    {p \in listed : ~should_ignore(rules, p, cfs[p].kind = "dir")}

\* A process_folder_items that would make a new SyncItem for every entry.
process_folder_itemsReplacing(items, listed) ==
    [p \in AllPaths |->
        IF p \in Kept(listed)
        THEN from_dict(create_item, ListingEntry(cfs[p]))
        ELSE items[p]]

\* process_folder_items: upsert the cloud state of every kept entry.
process_folder_items(items, listed) ==
    [p \in AllPaths |->
        IF p \in Kept(listed)
        THEN from_dict(IF items[p].present THEN items[p] ELSE create_item,
                       ListingEntry(cfs[p]))
        ELSE items[p]]

\* One worker of a wave: scan_single_folder(f).
scan_single_folder(f, failed) ==
    /\ pc = "cloud_scan"
    /\ f \in current_batch
    /\ failed => faults < MaxFaults
    /\ faults' = IF failed THEN faults + 1 ELSE faults
    /\ allOk' = (allOk /\ ~failed /\ cfs[f].kind = "dir")
    /\ current_batch' = current_batch \ {f}
    /\ IF f \in scanned_folders
       THEN UNCHANGED << sync_items, scanned_folders, folders_to_scan >>
       ELSE /\ scanned_folders' = scanned_folders \cup {f}
            /\ sync_items' = process_folder_items(sync_items, list(f, failed))
            /\ folders_to_scan' = folders_to_scan \cup
                   {p \in Kept(list(f, failed)) :
                        cfs[p].kind = "dir" /\ p \notin scanned_folders'}
    /\ list_failed' = IF failed THEN list_failed \cup {f} ELSE list_failed
    /\ UNCHANGED << lfs, cfs, clock, runs, op, pc, lfs0, cfs0, wiped, prev, rules,
                    items_need_for_update, batch, hstate, calls, returns, client_vars >>

ScanFolder == \E f \in current_batch : scan_single_folder(f, FALSE)
ScanFolderFails == \E f \in current_batch : scan_single_folder(f, TRUE)

\* ---------------------------------------------------------- classification

\* A submission in the order the cells hold the items.
Unsorted(s) == s

RECURSIVE Insert(_, _)
Insert(x, s) ==
    IF s = << >> THEN << x >>
    ELSE IF PathLess(x, Head(s)) THEN << x >> \o s
    ELSE << Head(s) >> \o Insert(x, Tail(s))

\* sorted(items, key=lambda x: x.cloud_path)
RECURSIVE Sorted(_)
Sorted(s) == IF s = << >> THEN << >> ELSE Insert(Head(s), Sorted(Tail(s)))

RECURSIVE SetToSeq(_)
SetToSeq(S) ==
    IF S = {} THEN << >>
    ELSE LET x == CHOOSE y \in S : TRUE IN << x >> \o SetToSeq(S \ {x})

\* A loop condition that would compare the kinds only.
ShouldFileByKind(item) == item.local_type # item.cloud_type

\* A loop body that would index the matrix by (cloud kind, local kind).
FileItemTransposed(m, p, item) ==
    IF item.local_type # item.cloud_type \/ item.local_md5 # item.cloud_md5
    THEN [m EXCEPT ![item.cloud_type][item.local_type] = Append(@, p)]
    ELSE m

\* The condition of the classification loop of cloud_scan.
ShouldFile(item) ==
    item.local_type # item.cloud_type \/ item.local_md5 # item.cloud_md5

\* One iteration of the loop: the item is appended to the cell of its kinds.
FileItem(m, p, item) ==
    IF ShouldFile(item)
    THEN [m EXCEPT ![item.local_type][item.cloud_type] = Append(@, p)]
    ELSE m

RECURSIVE ClassifyLoop(_, _, _)
ClassifyLoop(m, order, items) ==
    IF order = << >> THEN m
    ELSE ClassifyLoop(FileItem(m, Head(order), items[Head(order)]), Tail(order), items)

\* The end of cloud_scan, after the last wave: every entry of sync_items is
\* visited once (the dict's order is taken to be the path order; every
\* consumer of a cell sorts it).
Classify ==
    /\ pc = "cloud_scan"
    /\ current_batch = {}
    /\ folders_to_scan = {}
    /\ items_need_for_update' =
          ClassifyLoop(items_need_for_update,
                       Sorted(SetToSeq({p \in AllPaths : sync_items[p].present})),
                       sync_items)
    /\ pc' = "classified"
    /\ UNCHANGED << lfs, cfs, clock, faults, runs, op, allOk, lfs0, cfs0, list_failed, wiped, prev,
                    rules, sync_items, folders_to_scan, scanned_folders,
                    current_batch, batch, hstate, calls, returns, client_vars >>

\* ---------------------------------------------------------------- executor

\* A second phase of sync_save that would skip the (dir,file) cell.
SaveMkdirItemsNewOnly(m) == m["dir"]["empty"]

\* A third phase of sync_load that would skip the (dir,file) cell.
LoadDownloadItemsNoDir(m) == m["empty"]["file"] \o m["file"]["file"]

\* The cells each multythread_operation of sync_save is given, in the order
\* of the call's arguments.
SaveRemoveItems(m) ==
    m["empty"]["file"] \o m["empty"]["dir"] \o m["file"]["dir"] \o m["dir"]["file"]
SaveMkdirItems(m) == m["dir"]["empty"] \o m["dir"]["file"]
SaveUploadItems(m) == m["file"]["empty"] \o m["file"]["dir"] \o m["file"]["file"]

\* The same for sync_load.
LoadRemoveItems(m) ==
    m["file"]["empty"] \o m["file"]["dir"] \o m["dir"]["empty"] \o m["dir"]["file"]
LoadMkdirItems(m) == m["empty"]["dir"] \o m["file"]["dir"]
LoadDownloadItems(m) == m["empty"]["file"] \o m["dir"]["file"] \o m["file"]["file"]

PhaseItems(phase) ==
    LET m == items_need_for_update IN
    CASE phase = "remove" -> IF op = "save" THEN SaveRemoveItems(m) ELSE LoadRemoveItems(m)
      [] phase = "mkdir" -> IF op = "save" THEN SaveMkdirItems(m) ELSE LoadMkdirItems(m)
      [] phase = "transfer" -> IF op = "save" THEN SaveUploadItems(m) ELSE LoadDownloadItems(m)

\* A pool whose with-block would not wait for its handlers.
PoolLeftRunning == TRUE

\* Leaving the with-block of multythread_operation: shutdown(wait=True)
\* returns once every submitted handler has returned.
PoolJoined == AllReturned

\* A handler of the batch has raised.
Raised == \E i \in DOMAIN hstate : hstate[i] = "raised"

\* multythread_operation up to the submission of every item to the pool, in
\* ascending order of cloud_path.
Submit(phase) ==
    /\ pc' = phase
    /\ batch' = Sorted(PhaseItems(phase))
    /\ hstate' = [i \in 1..Len(PhaseItems(phase)) |-> "queued"]
    /\ UNCHANGED << lfs, cfs, clock, faults, runs, op, allOk, lfs0, cfs0, list_failed, wiped, prev,
                    rules, sync_items, folders_to_scan, scanned_folders,
                    current_batch, items_need_for_update, calls, returns, client_vars >>

SubmitRemove == pc = "classified" /\ Submit("remove")
SubmitMkdir == pc = "remove" /\ PoolJoined /\ ~Raised /\ Submit("mkdir")
SubmitTransfer == pc = "mkdir" /\ PoolJoined /\ ~Raised /\ Submit("transfer")

\* future.result() raises what a handler raised: the exception leaves
\* multythread_operation once the pool has been joined, and with it the
\* command; the calls that were to follow are never made.
Reraise ==
    /\ pc \in {"remove", "mkdir"}
    /\ PoolJoined
    /\ Raised
    /\ pc' = "raised"
    /\ UNCHANGED << lfs, cfs, clock, faults, runs, op, allOk, lfs0, cfs0, list_failed, wiped, prev,
                    rules, sync_items, folders_to_scan, scanned_folders, current_batch,
                    items_need_for_update, batch, hstate, calls, returns, client_vars >>

InFlight == {i \in DOMAIN hstate : hstate[i] \in {"running", "put"}}

Bump(counter, p) == [counter EXCEPT ![p][pc] = @ + 1]

\* A pool with a worker for every item.
max_workersUncapped(n) == n

\* max_workers = min(THREADS_COUNT, len(items))
max_workers(n) == Min(THREADS_COUNT, n)

\* A pool worker takes the next queued handler: the pool has
\* min(THREADS_COUNT, len(items)) workers and serves the queue in order.
StartHandler ==
    \E i \in DOMAIN hstate :
        /\ pc \in {"remove", "mkdir", "transfer"}
        /\ hstate[i] = "queued"
        /\ \A j \in 1..(i - 1) : hstate[j] # "queued"
        /\ Cardinality(InFlight) < max_workers(Len(batch))
        /\ hstate' = [hstate EXCEPT ![i] = "running"]
        /\ calls' = Bump(calls, batch[i])
        /\ UNCHANGED << lfs, cfs, clock, faults, runs, op, pc, allOk, lfs0, cfs0, list_failed, wiped,
                        prev, rules, sync_items, folders_to_scan, scanned_folders,
                        current_batch, items_need_for_update, batch, returns, client_vars >>

\* Handler i returns (or raises).
Return(i, how) ==
    /\ hstate' = [hstate EXCEPT ![i] = how]
    /\ returns' = Bump(returns, batch[i])

\* A sync_load that would pass the handlers of sync_save.
handlerOfSave(o, phase) ==
    CASE phase = "remove" -> "remove_cloud"
      [] phase = "mkdir" -> "create_cloud_dir"
      [] phase = "transfer" -> "upload_file"

\* The method of SyncItem that command o passes to its call of
\* multythread_operation for the given phase.
handler(o, phase) ==
    CASE o = "save" /\ phase = "remove" -> "remove_cloud"
      [] o = "save" /\ phase = "mkdir" -> "create_cloud_dir"
      [] o = "save" /\ phase = "transfer" -> "upload_file"
      [] o = "load" /\ phase = "remove" -> "remove_local"
      [] o = "load" /\ phase = "mkdir" -> "create_local_dir"
      [] o = "load" /\ phase = "transfer" -> "download_file"

\* ---------------------------------------------------- handlers of sync_save

\* What the server does on a successful DELETE of p.
CloudDelete(fs, p) == RemoveSubtree(fs, p)

\* SyncItem.remove_cloud: the DELETE request, then the recorded cloud type
\* becomes 'empty' whatever the request answered.
remove_cloud(i, failed) ==
    LET p == batch[i] IN
    /\ pc = "remove" /\ handler(op, pc) = "remove_cloud" /\ hstate[i] = "running"
    /\ failed => faults < MaxFaults
    /\ faults' = IF failed THEN faults + 1 ELSE faults
    /\ allOk' = (allOk /\ ~failed /\ cfs[p].kind # "empty")
    /\ cfs' = IF failed THEN cfs ELSE CloudDelete(cfs, p)
    /\ sync_items' = [sync_items EXCEPT ![p].cloud_type = "empty"]
    /\ Return(i, "done")
    /\ UNCHANGED << lfs, clock, runs, op, pc, lfs0, cfs0, list_failed, wiped, prev, rules,
                    folders_to_scan, scanned_folders, current_batch,
                    items_need_for_update, batch, calls, client_vars >>

RemoveCloud == \E i \in DOMAIN hstate : remove_cloud(i, FALSE)
RemoveCloudFails == \E i \in DOMAIN hstate : remove_cloud(i, TRUE)

\* remove_cloud whose DELETE is answered 429 with a negative Retry-After:
\* _make_request raises ValueError out of time.sleep, nothing on the way up
\* catches it, and the cloud type is not set.
RemoveCloudRaises ==
    \E i \in DOMAIN hstate :
        /\ pc = "remove" /\ handler(op, pc) = "remove_cloud" /\ hstate[i] = "running"
        /\ faults < MaxFaults
        /\ faults' = faults + 1
        /\ allOk' = FALSE
        /\ Return(i, "raised")
        /\ UNCHANGED << lfs, cfs, clock, runs, op, pc, lfs0, cfs0, list_failed, wiped, prev, rules,
                        sync_items, folders_to_scan, scanned_folders, current_batch,
                        items_need_for_update, batch, calls, client_vars >>

\* YandexDiskClient.create_dir with every request answered: nothing changes
\* when p exists (409, exists) or lies beneath a file; otherwise p is created,
\* after its missing parents (409, not exists, create_dir(parent)).
CloudCreateDir(fs, p) ==
    IF fs[p].kind # "empty" \/ FileAbove(fs, p) THEN fs ELSE MkdirP(fs, p)

\* create_dir answered 201 at once.
CreatedAtOnce(fs, p) ==
    fs[p].kind = "empty" /\ (p = Root \/ fs[Parent(p)].kind = "dir")

\* SyncItem.create_cloud_dir. answer: "ok", "status" (the PUT ends with an
\* error status: create_dir returns False) or "none" (_make_request returns
\* None: create_dir raises AttributeError, caught by create_cloud_dir before
\* the cloud type is set).
create_cloud_dir(i, answer) ==
    LET p == batch[i] IN
    /\ pc = "mkdir" /\ handler(op, pc) = "create_cloud_dir" /\ hstate[i] = "running"
    /\ answer # "ok" => faults < MaxFaults
    /\ faults' = IF answer # "ok" THEN faults + 1 ELSE faults
    /\ allOk' = (allOk /\ answer = "ok" /\ CreatedAtOnce(cfs, p))
    /\ cfs' = IF answer = "ok" THEN CloudCreateDir(cfs, p) ELSE cfs
    /\ sync_items' = IF answer = "none" THEN sync_items
                     ELSE [sync_items EXCEPT ![p].cloud_type = "dir"]
    /\ Return(i, "done")
    /\ UNCHANGED << lfs, clock, runs, op, pc, lfs0, cfs0, list_failed, wiped, prev, rules,
                    folders_to_scan, scanned_folders, current_batch,
                    items_need_for_update, batch, calls, client_vars >>

CreateCloudDir == \E i \in DOMAIN hstate : create_cloud_dir(i, "ok")
CreateCloudDirFails ==
    \E i \in DOMAIN hstate, a \in {"status", "none"} : create_cloud_dir(i, a)

\* YandexDiskClient.upload up to the PUT of the bytes under p + ".tmp":
\* stat of the local file (raises when it is gone), creation of the missing
\* parent folder, the upload URL (refused beneath a file) and the PUT, which
\* stores the content the local file has now.
\* answer "none" while the parent is missing: create_dir raises out of upload.
upload_put(i, answer) ==
    LET p == batch[i]
        par == Parent(p)
        fs1 == IF cfs[par].kind = "empty" THEN CloudCreateDir(cfs, par) ELSE cfs
        stored == fs1[par].kind = "dir" /\ lfs[p].kind = "file"
    IN
    /\ pc = "transfer" /\ handler(op, pc) = "upload_file" /\ hstate[i] = "running"
    /\ answer # "ok" => faults < MaxFaults
    /\ faults' = IF answer # "ok" /\ lfs[p].kind # "empty" THEN faults + 1 ELSE faults
    /\ IF lfs[p].kind = "empty"
       THEN /\ Return(i, "raised")
            /\ UNCHANGED << cfs, allOk >>
       ELSE IF answer = "none" /\ cfs[par].kind = "empty"
       THEN /\ Return(i, "raised")
            /\ allOk' = FALSE
            /\ UNCHANGED cfs
       ELSE IF answer # "ok"
       THEN /\ Return(i, "done")
            /\ allOk' = FALSE
            /\ cfs' = fs1
       ELSE IF ~stored
       THEN /\ Return(i, "done")
            /\ allOk' = FALSE
            /\ cfs' = fs1
       ELSE /\ hstate' = [hstate EXCEPT ![i] = "put"]
            /\ returns' = returns
            /\ allOk' = (allOk /\ cfs[par].kind = "dir")
            /\ cfs' = PutFile(fs1, TmpPath(p), File(lfs[p].md5))
    /\ UNCHANGED << lfs, clock, runs, op, pc, lfs0, cfs0, list_failed, wiped, prev, rules, sync_items,
                    folders_to_scan, scanned_folders, current_batch,
                    items_need_for_update, batch, calls, client_vars >>

UploadPut == \E i \in DOMAIN hstate : upload_put(i, "ok")
UploadPutFails == \E i \in DOMAIN hstate, a \in {"status", "none"} : upload_put(i, a)

\* What the server does on a successful move with overwrite=true.
CloudMove(fs, from, to) == PutFile(RemoveSubtree(fs, from), to, fs[from])

\* The rest of upload: the move of p + ".tmp" onto p; when the move fails the
\* temporary object is removed (cleaned = the removal succeeded).
upload_move(i, failed, cleaned) ==
    LET p == batch[i]
        tmp == TmpPath(p)
        moved == ~failed /\ cfs[tmp].kind = "file" /\ cfs[Parent(p)].kind = "dir"
        used == (IF failed THEN 1 ELSE 0) + (IF cleaned THEN 0 ELSE 1)
    IN
    /\ pc = "transfer" /\ handler(op, pc) = "upload_file" /\ hstate[i] = "put"
    /\ faults + used <= MaxFaults
    /\ ~cleaned => ~moved
    /\ faults' = faults + used
    /\ allOk' = (allOk /\ moved)
    /\ cfs' = IF moved THEN CloudMove(cfs, tmp, p)
              ELSE IF cleaned THEN CloudDelete(cfs, tmp)
              ELSE cfs
    /\ Return(i, "done")
    /\ UNCHANGED << lfs, clock, runs, op, pc, lfs0, cfs0, list_failed, wiped, prev, rules, sync_items,
                    folders_to_scan, scanned_folders, current_batch,
                    items_need_for_update, batch, calls, client_vars >>

UploadMove == \E i \in DOMAIN hstate : upload_move(i, FALSE, TRUE)
UploadMoveFails == \E i \in DOMAIN hstate, c \in BOOLEAN : upload_move(i, TRUE, c)

\* ---------------------------------------------------- handlers of sync_load

\* SyncItem.remove_local: rmtree or unlink by the recorded local type; an
\* exception (the path is gone, or is of the other kind) leaves the recorded
\* type as it was.
remove_local(i) ==
    LET p == batch[i]
        t == sync_items[p].local_type
        removed == t # "empty" /\ lfs[p].kind = t
    IN
    /\ pc = "remove" /\ handler(op, pc) = "remove_local" /\ hstate[i] = "running"
    /\ lfs' = IF removed THEN RemoveSubtree(lfs, p) ELSE lfs
    /\ sync_items' = IF removed THEN [sync_items EXCEPT ![p].local_type = "empty"]
                     ELSE sync_items
    /\ Return(i, "done")
    /\ UNCHANGED << cfs, clock, faults, runs, op, pc, allOk, lfs0, cfs0, list_failed, wiped, prev,
                    rules, folders_to_scan, scanned_folders, current_batch,
                    items_need_for_update, batch, calls, client_vars >>

RemoveLocal == \E i \in DOMAIN hstate : remove_local(i)

\* SyncItem.create_local_dir: mkdir(parents=True, exist_ok=True); it raises,
\* and the recorded type stays, when p or an ancestor of p is a file.
create_local_dir(i) ==
    LET p == batch[i]
        made == lfs[p].kind # "file" /\ ~FileAbove(lfs, p)
    IN
    /\ pc = "mkdir" /\ handler(op, pc) = "create_local_dir" /\ hstate[i] = "running"
    /\ lfs' = IF made THEN MkdirP(lfs, p) ELSE lfs
    /\ sync_items' = IF made THEN [sync_items EXCEPT ![p].local_type = "dir"]
                     ELSE sync_items
    /\ Return(i, "done")
    /\ UNCHANGED << cfs, clock, faults, runs, op, pc, allOk, lfs0, cfs0, list_failed, wiped, prev,
                    rules, folders_to_scan, scanned_folders, current_batch,
                    items_need_for_update, batch, calls, client_vars >>

CreateLocalDir == \E i \in DOMAIN hstate : create_local_dir(i)

\* SyncItem.download_file: the download URL, the transfer, and the write of
\* the local file (which raises, caught, when the parent directory is missing
\* or a directory is in the way).
download_file(i, failed) ==
    LET p == batch[i]
        fetched == ~failed /\ cfs[p].kind = "file"
        written == fetched /\ lfs[Parent(p)].kind = "dir" /\ lfs[p].kind # "dir"
    IN
    /\ pc = "transfer" /\ handler(op, pc) = "download_file" /\ hstate[i] = "running"
    /\ failed => faults < MaxFaults
    /\ faults' = IF failed THEN faults + 1 ELSE faults
    /\ allOk' = (allOk /\ fetched)
    /\ lfs' = IF written THEN [lfs EXCEPT ![p] = File(cfs[p].md5)] ELSE lfs
    /\ Return(i, "done")
    /\ UNCHANGED << cfs, clock, runs, op, pc, lfs0, cfs0, list_failed, wiped, prev, rules, sync_items,
                    folders_to_scan, scanned_folders, current_batch,
                    items_need_for_update, batch, calls, client_vars >>

Download == \E i \in DOMAIN hstate : download_file(i, FALSE)
DownloadFails == \E i \in DOMAIN hstate : download_file(i, TRUE)

\* ------------------------------------------------------------- environment

\* Between a save and the next command the local project folder is deleted
\* and created again, empty (step 3 of the integration test).
WipeLocal ==
    /\ RunDone /\ op = "save" /\ ~wiped
    /\ runs < MaxRuns
    /\ lfs' = [EmptyLocal EXCEPT ![Root] = Dir]
    /\ wiped' = TRUE
    /\ UNCHANGED << cfs, clock, faults, runs, op, pc, allOk, lfs0, cfs0, list_failed, prev, rules,
                    sync_items, folders_to_scan, scanned_folders, current_batch,
                    items_need_for_update, batch, hstate, calls, returns, client_vars >>

\* ----------------------------------------------------------- specification

Next ==
    \/ sync_save
    \/ sync_load
    \/ set_cache
    \/ NextWave
    \/ ScanFolder
    \/ ScanFolderFails
    \/ Classify
    \/ SubmitRemove
    \/ SubmitMkdir
    \/ SubmitTransfer
    \/ StartHandler
    \/ RemoveCloud
    \/ RemoveCloudFails
    \/ RemoveCloudRaises
    \/ Reraise
    \/ CreateCloudDir
    \/ CreateCloudDirFails
    \/ UploadPut
    \/ UploadPutFails
    \/ UploadMove
    \/ UploadMoveFails
    \/ RemoveLocal
    \/ CreateLocalDir
    \/ Download
    \/ DownloadFails
    \/ WipeLocal

Spec == Init /\ [][Next]_vars

\* ------------------------------------------ projects of nested and twin names
\* The same commands on projects whose .syncignore names a path beneath a
\* directory (or the directory itself), and on a project that holds a file
\* next to a file of the same name + ".tmp".

\* a.txt next to a.txt.tmp.
TwinLocal ==
    [Tree(EmptyLocal, Dir, File(DefaultIgnoreText), Absent, File(1), Absent, Absent, Absent)
        EXCEPT ![TmpPath(ATxt)] = File(1)]

\* The cloud after a save of TwinLocal, a.txt having had another content.
TwinCloud ==
    [Tree(EmptyCloud, Dir, File(DefaultIgnoreText), Absent, File(2), Absent, Absent, Absent)
        EXCEPT ![TmpPath(ATxt)] = File(1)]

EmptyRootCloud == [EmptyCloud EXCEPT ![Root] = Dir]

\* docs/old.md under a .syncignore of text t; a project without docs.
DocsLocal(t) == Tree(EmptyLocal, Dir, File(t), Absent, Absent, Absent, Dir, File(1))
NoDocsLocal(t) == Tree(EmptyLocal, Dir, File(t), Absent, File(1), Absent, Absent, Absent)

\* A cloud with two folders at depth 1, docs (holding old.md) and docs.tmp;
\* a cloud without them.
DocsCloud(t) ==
    [Tree(EmptyCloud, Dir, File(t), Absent, Absent, Absent, Dir, File(2))
        EXCEPT ![TmpPath(Docs)] = Dir]
NoDocsCloud(t) == Tree(EmptyCloud, Dir, File(t), Absent, Absent, Absent, Absent, Absent)

TreePairs ==
    { << TwinLocal, TwinCloud >>, << TwinLocal, EmptyRootCloud >>,
      << DocsLocal(DefaultIgnoreText), DocsCloud(DefaultIgnoreText) >> } \cup
    UNION { { << DocsLocal(t), NoDocsCloud(t) >>,
              << DocsLocal(t), DocsCloud(t) >>,
              << NoDocsLocal(t), DocsCloud(t) >> } :
            t \in {IgnoreOldMdText, IgnoreDocsText} }

TreeInit ==
    /\ \E pair \in TreePairs : lfs = pair[1] /\ cfs = pair[2]
    /\ SyncInitRest
    /\ ClientIdle

TreeSpec == TreeInit /\ [][Next]_vars

\* ------------------------------------------------------------ sanity checks

TypeOK ==
    /\ TreeOK(lfs) /\ TreeOK(cfs)
    /\ \A p \in AllPaths : p # Root => sync_items[p].local_type \in Kinds
    /\ pc \in {"idle", "aborted", "raised", "scanned", "cloud_scan", "classified",
               "remove", "mkdir", "transfer"}
    /\ faults <= MaxFaults /\ runs <= MaxRuns
    /\ TreeOK(lfs0) /\ TreeOK(cfs0)
    /\ list_failed \subseteq scanned_folders

\* No listing ever returns a name for which the model has no SyncItem.
ListingInModel ==
    pc = "cloud_scan" => \A p \in CloudPaths \ AllPaths : cfs[p].kind = "empty"

\* ===================================================================
\* YandexDiskClient, one call at a time
\* ===================================================================

\* ------------------------------------------------------------ _make_request

\* The largest max_retries a call is given.
MaxRetries == 2

\* timeout defaults: 30 for an API call, 60 for a raw one.
ApiTimeout == 30
RawTimeout == 60
\* Retry-After: '1' when the header is missing or no integer, at most 60.
RetryAfterDefault == 1
RetryAfterCap == 60
\* base_delay = min(2 ** attempt, 32)
BackoffCap == 32

\* A keyword argument that was not passed.
NotPassed == "not passed"

\* int(text) for the header texts of the model; int raises ValueError on
\* any other text.
IntText == [t \in {"-1", "0", "1", "2", "61"} |->
              CASE t = "-1" -> 0 - 1 [] t = "0" -> 0 [] t = "1" -> 1
                [] t = "2" -> 2 [] t = "61" -> 61]

\* The Retry-After headers a 429 answer may carry: none, integers (also a
\* negative one and one above the cap) and an HTTP date.
RetryAfterHeaders == {NotPassed, "-1", "0", "2", "61", "Fri, 07 Nov 2025 10:00:00 GMT"}

\* int(response.headers.get('Retry-After', '1')), 1 on ValueError.
retry_after(header) ==
    LET text == IF header = NotPassed THEN "1" ELSE header IN
    IF text \in DOMAIN IntText THEN IntText[text] ELSE RetryAfterDefault

\* random.uniform(0.1, 0.5), in hundredths: both ends can be drawn.
JitterPercents == {10, 30, 50}

RECURSIVE Pow2(_)
Pow2(n) == IF n = 0 THEN 1 ELSE 2 * Pow2(n - 1)

\* A delay that would grow without the cap.
base_delay_uncapped(attempt) == Pow2(attempt)

\* _calculate_backoff_time(attempt) with the jitter drawn, in hundredths of
\* a second: base_delay + jitter * base_delay.
base_delay(attempt) == Min(Pow2(attempt), BackoffCap)
calculate_backoff_time(attempt, jitter) ==
    base_delay(attempt) * 100 + jitter * base_delay(attempt)

\* What one requests.request can end in: an answer, an exception of the
\* retryable tuple, or another RequestException; and what _make_request ends
\* in besides an answer: None, or the ValueError of time.sleep.
Answer(status, header) == [kind |-> "response", status |-> status, retry_after |-> header]
Retryable == [kind |-> "retryable", status |-> 0, retry_after |-> NotPassed]
OtherException == [kind |-> "other", status |-> 0, retry_after |-> NotPassed]
ReturnedNone == [kind |-> "None", status |-> 0, retry_after |-> NotPassed]
RaisedValueError == [kind |-> "ValueError", status |-> 0, retry_after |-> NotPassed]
Outcomes ==
    {Answer(status, NotPassed) : status \in {200, 404, 500}}
        \cup {Answer(429, h) : h \in RetryAfterHeaders}
        \cup {Retryable, OtherException}

\* The calls of the model: an API call as list makes it, and a raw call as
\* download makes it, each with and without its optional keyword arguments
\* (timeout: the set of the values passed, empty when none is).
ApiCalls ==
    { [method |-> "GET", url |-> "/", params |-> "path=docs", is_api_call |-> TRUE,
       headers |-> NotPassed, timeout |-> t] : t \in {{}, {5}} }
RawCalls ==
    { [method |-> "GET", url |-> "https://downloader/href", params |-> NotPassed,
       is_api_call |-> FALSE, headers |-> h, timeout |-> t] :
         h \in {NotPassed, "Range: bytes=0-"}, t \in {{}, {5}} }

\* _make_request is entered: kwargs holds what the caller passed.
StartRequest(call, max_retries) ==
    [pc |-> "loop", call |-> call, max_retries |-> max_retries, attempt |-> 0,
     kwargs |-> [headers |-> call.headers, timeout |-> call.timeout],
     outcome |-> NoResult, result |-> NoResult]

\* The request one iteration of the loop issues, and kwargs after it: the
\* timeout is stored in kwargs, the headers of a raw call are popped from it.
TimeoutOf(r) ==
    IF r.kwargs.timeout # {} THEN CHOOSE t \in r.kwargs.timeout : TRUE
    ELSE IF r.call.is_api_call THEN ApiTimeout ELSE RawTimeout
RequestOf(r) ==
    [method |-> r.call.method,
     url |-> IF r.call.is_api_call THEN << "api_base", r.call.url >> ELSE << r.call.url >>,
     params |-> r.call.params,
     headers |-> IF r.call.is_api_call THEN "Authorization"
                 ELSE IF r.kwargs.headers = NotPassed THEN "{}" ELSE r.kwargs.headers,
     timeout |-> TimeoutOf(r)]
KwargsAfter(r) ==
    [headers |-> IF r.call.is_api_call THEN r.kwargs.headers ELSE NotPassed,
     timeout |-> {TimeoutOf(r)}]

\* The seconds slept before the next attempt, in hundredths.
wait_time(header) == 100 * Min(retry_after(header), RetryAfterCap)

\* A loop that would also go on after a client error (4xx).
RetriedOnAnyError(o) ==
    \/ o.kind = "retryable"
    \/ o.kind = "response" /\ o.status >= 400

\* A last iteration that would fall through to the final return None when
\* the answer is an error.
ResultNoneOnError(o) ==
    IF o.kind = "response" /\ o.status < 400 THEN o ELSE ReturnedNone

\* What _make_request returns when the loop ends with outcome o: the
\* response itself, None after an exception.
Result(o) == IF o.kind = "response" THEN o ELSE ReturnedNone

\* The outcome makes the loop go on (when attempts remain).
Retried(o) ==
    \/ o.kind = "retryable"
    \/ o.kind = "response" /\ (o.status = 429 \/ o.status >= 500)

\* One iteration of the loop of _make_request: the request is issued and
\* its outcome handled. time.sleep raises ValueError on a negative argument
\* and neither except clause catches it.
Attempt ==
    /\ fn = "_make_request"
    /\ rq.pc = "loop"
    /\ rq.attempt <= rq.max_retries
    /\ sent' = Append(sent, RequestOf(rq))
    /\ \E o \in Outcomes, jitter \in JitterPercents :
          LET r == [rq EXCEPT !.kwargs = KwargsAfter(rq), !.outcome = o]
              wait == IF o.kind = "response" /\ o.status = 429
                      THEN wait_time(o.retry_after)
                      ELSE calculate_backoff_time(rq.attempt, jitter)
          IN  IF Retried(o) /\ rq.attempt < rq.max_retries
              THEN IF wait < 0
                   THEN /\ rq' = [r EXCEPT !.pc = "raised", !.result = RaisedValueError]
                        /\ slept' = slept
                   ELSE /\ rq' = [r EXCEPT !.attempt = @ + 1]
                        /\ slept' = Append(slept, wait)
              ELSE /\ rq' = [r EXCEPT !.pc = "returned", !.result = Result(o)]
                   /\ slept' = slept
    /\ UNCHANGED << sync_vars, fn, bo, ls, up, ig, st, po, cd >>

\* --------------------------------------------------- _calculate_backoff_time

\* The largest attempt number _calculate_backoff_time is called with.
MaxAttempt == 6

CalculateBackoff ==
    /\ fn = "_calculate_backoff_time"
    /\ bo.pc = "called"
    /\ \E jitter \in JitterPercents :
          bo' = [bo EXCEPT !.pc = "returned", !.jitter = jitter,
                           !.result = calculate_backoff_time(bo.attempt, jitter)]
    /\ UNCHANGED << sync_vars, fn, request_vars, ls, up, ig, st, po, cd >>

\* --------------------------------------------------------------------- list

\* The largest folder and the largest limit argument of the model.
MaxItems == 5
MaxLimit == 3
\* page_limit = min(limit, 10000)
ApiPageLimit == 10000

\* The server's answer to one page request on a folder of n items, named
\* 1..n in server order: the items after offset, at most page_limit of them.
RECURSIVE Range(_, _)
Range(a, b) == IF a > b THEN << >> ELSE << a >> \o Range(a + 1, b)
Page(n, offset, page_limit) == Range(offset + 1, Min(offset + page_limit, n))

\* A loop that would stop on a short page only.
PageEndsListOnShortPage(count, total, len, page_limit) == len < page_limit

\* The break after a page: everything was received, or the page was short.
PageEndsList(count, total, len, page_limit) == count >= total \/ len < page_limit

\* One iteration of the loop of list, the request answered 200.
ListPage ==
    /\ fn = "list"
    /\ ls.pc = "loop"
    /\ LET items == Page(ls.n, ls.offset, ls.page_limit)
           all_items == ls.all_items \o items
           asked == [ls EXCEPT !.offsets = Append(@, ls.offset)]
       IN  IF items = << >>
           THEN ls' = [asked EXCEPT !.pc = "returned"]
           ELSE IF PageEndsList(Len(all_items), ls.n, Len(items), ls.page_limit)
           THEN ls' = [asked EXCEPT !.pc = "returned", !.all_items = all_items]
           ELSE ls' = [asked EXCEPT !.all_items = all_items, !.offset = @ + Len(items)]
    /\ UNCHANGED << sync_vars, fn, request_vars, bo, up, ig, st, po, cd >>

\* One iteration whose request ends in None or in a status other than 200:
\* the loop is left with what was gathered.
ListPageFails ==
    /\ fn = "list"
    /\ ls.pc = "loop"
    /\ ls' = [ls EXCEPT !.pc = "returned", !.failed = TRUE,
                        !.offsets = Append(@, ls.offset)]
    /\ UNCHANGED << sync_vars, fn, request_vars, bo, up, ig, st, po, cd >>

\* ------------------------------------------------------------------- upload

\* What the server can answer to the PUT of the bytes; 0 stands for a
\* network failure, which raises out of requests.put.
PutStatuses == {201, 202, 429, 500, 507, 0}

\* A request of upload as the server sees it, with the status it ended in
\* (0 when there was no response).
Sent(request, path, status) == [op |-> request, path |-> path, status |-> status]

\* The sync variables upload leaves alone: all but the cloud.
sync_vars_but_cfs ==
    << lfs, clock, faults, runs, op, pc, allOk, lfs0, cfs0, list_failed, wiped, prev,
       rules, sync_items, folders_to_scan, scanned_folders, current_batch,
       items_need_for_update, batch, hstate, calls, returns >>

Returned(result) == [up EXCEPT !.pc = "returned", !.result = result]

\* upload down to tmp_cloud_path: stat of the local file, which raises when
\* the file is gone, then exists(parent) and, for a missing parent,
\* create_dir(parent). answer: "ok", "status" (create_dir returns False) or
\* "none" (_make_request returned None and create_dir raises).
upload_parent(answer) ==
    LET par == Parent(up.p) IN
    /\ fn = "upload"
    /\ up.pc = "called"
    /\ answer # "ok" => lfs[up.p].kind = "file" /\ cfs[par].kind = "empty"
    /\ IF lfs[up.p].kind # "file"
       THEN up' = [up EXCEPT !.pc = "raised"] /\ UNCHANGED cfs
       ELSE IF cfs[par].kind # "empty"
       THEN /\ up' = [up EXCEPT !.pc = "url", !.log = Append(@, Sent("exists", par, 200))]
            /\ UNCHANGED cfs
       ELSE LET asked == up.log \o << Sent("exists", par, 404) >> IN
            CASE answer = "ok" ->
                   /\ up' = [up EXCEPT !.pc = "url",
                                       !.log = asked \o << Sent("create_dir", par, 201) >>]
                   /\ cfs' = CloudCreateDir(cfs, par)
              [] answer = "status" ->
                   /\ up' = [Returned(FALSE) EXCEPT
                                !.log = asked \o << Sent("create_dir", par, 500) >>]
                   /\ UNCHANGED cfs
              [] answer = "none" ->
                   /\ up' = [up EXCEPT !.pc = "raised",
                                       !.log = asked \o << Sent("create_dir", par, 0) >>]
                   /\ UNCHANGED cfs
    /\ UNCHANGED << sync_vars_but_cfs, fn, request_vars, bo, ls, ig, st, po, cd >>

UploadParent == upload_parent("ok")
UploadParentFails == \E a \in {"status", "none"} : upload_parent(a)

\* _upload_file_with_progress, the upload URL: GET /upload for the path it
\* was given, which is tmp_cloud_path; the server refuses a path whose parent
\* is no folder. Without a URL upload returns False.
upload_url(failed) ==
    LET tmp == TmpPath(up.p)
        refused == cfs[Parent(up.p)].kind # "dir"
        status == IF failed THEN 500 ELSE IF refused THEN 409 ELSE 200
    IN
    /\ fn = "upload"
    /\ up.pc = "url"
    /\ up' = [(IF status = 200 THEN [up EXCEPT !.pc = "put"] ELSE Returned(FALSE))
                EXCEPT !.log = Append(@, Sent("get_upload_url", tmp, status))]
    /\ UNCHANGED << sync_vars, fn, request_vars, bo, ls, ig, st, po, cd >>

UploadUrl == upload_url(FALSE)
UploadUrlFails == upload_url(TRUE)

\* A check that would take every answer of the PUT for a success.
PutAcceptedAlways(status) == TRUE

\* response.status_code in (201, 202)
PutAccepted(status) == status \in {201, 202}

\* _upload_file_with_progress, the bytes: one requests.put to the URL, made
\* outside _make_request; any other status and any exception end in False.
\* The URL was signed for tmp_cloud_path, so that is where the bytes land.
upload_put_bytes(status) ==
    LET tmp == TmpPath(up.p) IN
    /\ fn = "upload"
    /\ up.pc = "put"
    /\ IF PutAccepted(status)
       THEN /\ up' = [up EXCEPT !.pc = "move", !.log = Append(@, Sent("put", tmp, status))]
            /\ cfs' = IF status \in {201, 202}
                      THEN PutFile(cfs, tmp, File(lfs[up.p].md5)) ELSE cfs
       ELSE /\ up' = [Returned(FALSE) EXCEPT !.log = Append(@, Sent("put", tmp, status))]
            /\ UNCHANGED cfs
    /\ UNCHANGED << sync_vars_but_cfs, fn, request_vars, bo, ls, ig, st, po, cd >>

UploadBytes == \E status \in {201, 202} : upload_put_bytes(status)
UploadBytesFails == \E status \in PutStatuses \ {201, 202} : upload_put_bytes(status)

\* An upload that would leave the temporary object where it is.
CleanupRequestsNone(tmp, cleaned) == << >>

\* The clean-up of upload, after a move that returned False and in the
\* handler of an exception alike: remove(tmp_cloud_path) inside try/except;
\* cleaned = the DELETE succeeded (else remove returned False or raised).
CleanupRequests(tmp, cleaned) ==
    << Sent("remove", tmp, IF cleaned THEN 204 ELSE 500) >>

\* The end of upload: move(tmp_cloud_path, cloud_path); when it fails
\* (returns False, or raises into the handler of upload), the clean-up,
\* whose own failure is swallowed, and False.
upload_rename(failed, cleaned) ==
    LET tmp == TmpPath(up.p)
        moved == ~failed /\ cfs[tmp].kind = "file"
    IN
    /\ fn = "upload"
    /\ up.pc = "move"
    /\ ~failed => cleaned
    /\ IF moved
       THEN /\ up' = [Returned(TRUE) EXCEPT !.log = Append(@, Sent("move", up.p, 201))]
            /\ cfs' = CloudMove(cfs, tmp, up.p)
       ELSE /\ up' = [Returned(FALSE) EXCEPT
                        !.log = @ \o << Sent("move", up.p, IF failed THEN 500 ELSE 404) >>
                                   \o CleanupRequests(tmp, cleaned)]
            /\ cfs' = IF cleaned THEN CloudDelete(cfs, tmp) ELSE cfs
    /\ UNCHANGED << sync_vars_but_cfs, fn, request_vars, bo, ls, ig, st, po, cd >>

UploadRename == upload_rename(FALSE, TRUE)
UploadRenameFails == \E c \in BOOLEAN : upload_rename(TRUE, c)

\* ------------------------------------------------------------ should_ignore

\* The rules texts and the candidates should_ignore is called with.
RulesTexts == {DefaultIgnoreText, 2, BuildIgnoreText, 4, 5, 6, 7}
Candidates == {<<".git">>, ATxt, Build, BuildKeep, BuildX}

\* parse_rules(text), then should_ignore(path, is_directory).
ShouldIgnore ==
    /\ fn = "should_ignore"
    /\ ig.pc = "called"
    /\ ig' = [ig EXCEPT !.pc = "returned",
                        !.result = should_ignore(parse_rules(ig.text), ig.path,
                                                 ig.is_directory)]
    /\ UNCHANGED << sync_vars, fn, request_vars, bo, ls, up, st, po, cd >>

\* -------------------------------------------------------------- show_status

\* The commands whose code calls cloud_scan.
RunsCloudScanAlways(command) == TRUE
RunsCloudScan(command) == command \in {"save", "load"}

\* get_cache on the node at .project_cache.json: None for a missing file
\* and for a content json.load rejects, else what the content parses to.
\*   a content written by set_cache (below 0) = a cache with every section,
\*   content 8 = "{}", content 9 = '{"files": {}, "dirs": {}}',
\*   content 10 = '{"project_info": {"last_updated": "x"}}',
\*   any other content (".git\n", "a.txt\n") is no JSON; so is a directory.
get_cache(node) ==
    CASE node.kind # "file" -> "None"
      [] node.md5 < 0 -> "cache"
      [] node.md5 = 8 -> "empty"
      [] node.md5 = 9 -> "no project_info"
      [] node.md5 = 10 -> "no files"
      [] OTHER -> "None"

\* The local trees show_status is called on: a project folder with any of
\* the cache contents above, with or without .syncignore.
StatusInits ==
    { Tree(EmptyLocal, Dir, si, cache, a, Absent, df[1], df[2]) :
        si \in FileOrAbsent({DefaultIgnoreText, 2}),
        cache \in FileOrAbsent({1, 8, 9, 10, CacheContent(1)}),
        a \in FileOrAbsent({1}),
        df \in {<<Absent, Absent>>, <<Dir, File(1)>>} }

\* show_status: get_cache; without a cache the report "no baseline" and
\* return; cache['project_info']['last_updated'] raises KeyError on a cache
\* without that section; then local_scan, which writes a missing .syncignore,
\* and the comparison of the scan with the cache.
ShowStatus ==
    LET cache == get_cache(lfs[CacheFile])
        fs2 == IF lfs[SyncIgnoreFile].kind = "empty"
               THEN [lfs EXCEPT ![SyncIgnoreFile] = File(DefaultIgnoreText)]
               ELSE lfs
        rs == parse_rules(fs2[SyncIgnoreFile].md5)
    IN
    /\ fn = "show_status"
    /\ st.pc = "called"
    /\ IF cache \in {"None", "empty"}
       THEN /\ st' = [st EXCEPT !.pc = "returned", !.report = "no baseline"]
            /\ UNCHANGED << lfs, rules, sync_items, folders_to_scan >>
       ELSE IF cache = "no project_info"
       THEN /\ st' = [st EXCEPT !.pc = "raised"]
            /\ UNCHANGED << lfs, rules, sync_items, folders_to_scan >>
       ELSE /\ st' = [st EXCEPT !.pc = "returned", !.report = "compared",
                                !.scanned = TRUE]
            /\ lfs' = fs2
            /\ rules' = rs
            /\ sync_items' = scan_local_items(fs2, rs)
            /\ folders_to_scan' = IF RunsCloudScan("status") THEN {Root} ELSE {}
    /\ UNCHANGED << cfs, clock, faults, runs, op, pc, allOk, lfs0, cfs0, list_failed, wiped,
                    prev, scanned_folders, current_batch, items_need_for_update,
                    batch, hstate, calls, returns, fn, request_vars, bo, ls, up, ig, po, cd >>

\* ---------------------------------------------------------- the worker pools

\* The largest batch a pool is given and the number of pools followed.
MaxBatch == 18
MaxPools == 2

\* The pools of one run by counts: every wave of _scan_cloud_items_parallel
\* and every multythread_operation opens a ThreadPoolExecutor in a
\* with-block of the one main thread, submits its n items and leaves the
\* block when all have finished. Without items no pool is made.
PoolOpen ==
    /\ fn = "pools"
    /\ po.pc = "between"
    /\ po.opened < MaxPools
    /\ \E n \in 0..MaxBatch, kind \in {"scan", "action"} :
          po' = IF n = 0
                THEN [po EXCEPT !.opened = @ + 1, !.n = 0, !.finished = 0]
                ELSE [pc |-> "pool", kind |-> kind, opened |-> po.opened + 1, n |-> n,
                      queued |-> n, running |-> 0, finished |-> 0]
    /\ UNCHANGED << sync_vars, fn, request_vars, bo, ls, up, ig, st, cd >>

\* A free worker takes a queued handler.
WorkerStart ==
    /\ fn = "pools"
    /\ po.pc = "pool"
    /\ po.queued > 0
    /\ po.running < max_workers(po.n)
    /\ po' = [po EXCEPT !.queued = @ - 1, !.running = @ + 1]
    /\ UNCHANGED << sync_vars, fn, request_vars, bo, ls, up, ig, st, cd >>

WorkerFinish ==
    /\ fn = "pools"
    /\ po.pc = "pool"
    /\ po.running > 0
    /\ po' = [po EXCEPT !.running = @ - 1, !.finished = @ + 1]
    /\ UNCHANGED << sync_vars, fn, request_vars, bo, ls, up, ig, st, cd >>

\* The end of the with-block: shutdown(wait=True) has returned.
PoolExit ==
    /\ fn = "pools"
    /\ po.pc = "pool"
    /\ po.queued = 0 /\ po.running = 0
    /\ po' = [po EXCEPT !.pc = "between"]
    /\ UNCHANGED << sync_vars, fn, request_vars, bo, ls, up, ig, st, cd >>

\* ------------------------------------------------------------ create_dir

\* The requests of one call of create_dir that are followed.
MaxRequests == 10

\* One activation of create_dir: its cloud_path, its create_parent, and where
\* it is: before its PUT ("put"), before self.exists ("exists"), inside
\* create_dir(cloud_path_parent) ("parent") or inside
\* create_dir(cloud_path, create_parent=False) ("retry").
Frame(path, create_parent, at) ==
    [path |-> path, create_parent |-> create_parent, at |-> at]

\* An activation has returned value to the activations that wait for it:
\* create_dir(parent) and create_dir(cloud_path, create_parent=False) calls
\* its second operand only when the first returned True, and returns the
\* value of the last operand it evaluated.
RECURSIVE Unwind(_, _)
Unwind(callers, value) ==
    IF callers = << >>
    THEN [frames |-> << >>, pc |-> "returned", result |-> value]
    ELSE LET top == callers[Len(callers)]
             rest == SubSeq(callers, 1, Len(callers) - 1)
         IN  IF top.at = "parent" /\ value
             THEN [frames |-> rest \o << [top EXCEPT !.at = "retry"],
                                         Frame(top.path, FALSE, "put") >>,
                   pc |-> "running", result |-> FALSE]
             ELSE Unwind(rest, value)

\* The running activation and the ones that wait for it.
Running(c) == c.frames[Len(c.frames)]
Callers(c) == SubSeq(c.frames, 1, Len(c.frames) - 1)

\* response = self._make_request("PUT", "/", params): 201, 409, another
\* status, or no response at all (0), where response.status_code raises.
CreateDirPut ==
    /\ fn = "create_dir"
    /\ cd.pc = "running"
    /\ Running(cd).at = "put"
    /\ Len(cd.log) < MaxRequests
    /\ \E status \in {201, 409, 500, 0} :
          LET top == Running(cd)
              log == cd.log \o << Sent("PUT", top.path, status) >>
              back == Unwind(Callers(cd), status = 201)
          IN  cd' = CASE status = 0 ->
                           [cd EXCEPT !.pc = "raised", !.log = log]
                      [] status = 409 ->
                           [cd EXCEPT !.frames = Callers(cd) \o
                                                 << [top EXCEPT !.at = "exists"] >>,
                                      !.log = log]
                      [] OTHER ->
                           [cd EXCEPT !.frames = back.frames, !.pc = back.pc,
                                      !.result = back.result, !.log = log]
    /\ UNCHANGED << sync_vars, fn, request_vars, bo, ls, up, ig, st, po >>

\* self.exists(cloud_path) after a 409: True on a 200; otherwise the parent
\* is created first when create_parent is set, and False is returned when
\* it is not.
CreateDirExists ==
    /\ fn = "create_dir"
    /\ cd.pc = "running"
    /\ Running(cd).at = "exists"
    /\ Len(cd.log) < MaxRequests
    /\ \E status \in {200, 404, 0} :
          LET top == Running(cd)
              log == cd.log \o << Sent("GET", top.path, status) >>
              back == Unwind(Callers(cd), status = 200)
          IN  cd' = IF status # 200 /\ top.create_parent
                    THEN [cd EXCEPT !.frames = Callers(cd) \o
                                        << [top EXCEPT !.at = "parent"],
                                           Frame(Parent(top.path), TRUE, "put") >>,
                                    !.log = log]
                    ELSE [cd EXCEPT !.frames = back.frames, !.pc = back.pc,
                                    !.result = back.result, !.log = log]
    /\ UNCHANGED << sync_vars, fn, request_vars, bo, ls, up, ig, st, po >>

\* -------------------------------------------------------- the calls followed

\* One call of one method, on a project that is not running a command.
ClientInit ==
    /\ fn \in {"_make_request", "_calculate_backoff_time", "list", "upload",
               "should_ignore", "show_status", "pools", "create_dir"}
    /\ lfs \in IF fn = "upload" THEN LocalInits
               ELSE IF fn = "show_status" THEN StatusInits
               ELSE {EmptyLocal}
    /\ cfs \in IF fn = "upload" THEN CloudInits
               ELSE IF fn = "show_status" THEN {EmptyCloud, SavedTwiceCloud}
               ELSE {EmptyCloud}
    /\ SyncInitRest
    /\ sent = << >>
    /\ slept = << >>
    /\ rq \in IF fn # "_make_request" THEN {NoRequest}
              ELSE {StartRequest(call, m) : call \in ApiCalls \cup RawCalls, m \in 0..MaxRetries}
    /\ bo \in IF fn # "_calculate_backoff_time" THEN {NoCall}
              ELSE {[pc |-> "called", attempt |-> a, jitter |-> 0, result |-> 0] :
                        a \in 0..MaxAttempt}
    /\ ls \in IF fn # "list" THEN {NoCall}
              ELSE {[pc |-> "loop", n |-> n, page_limit |-> Min(limit, ApiPageLimit),
                     offset |-> 0, all_items |-> << >>, offsets |-> << >>,
                     failed |-> FALSE] : n \in 0..MaxItems, limit \in 1..MaxLimit}
    /\ up \in IF fn # "upload" THEN {NoCall}
              ELSE {[pc |-> "called", p |-> p, result |-> FALSE, log |-> << >>] :
                        p \in {ATxt, OldMd}}
    /\ ig \in IF fn # "should_ignore" THEN {NoCall}
              ELSE {[pc |-> "called", text |-> t, path |-> p, is_directory |-> d,
                     result |-> FALSE] :
                        t \in RulesTexts, p \in Candidates, d \in BOOLEAN}
    /\ st \in IF fn # "show_status" THEN {NoCall}
              ELSE {[pc |-> "called", report |-> "none", scanned |-> FALSE]}
    /\ po \in IF fn # "pools" THEN {NoCall}
              ELSE {[pc |-> "between", kind |-> "scan", opened |-> 0, n |-> 0,
                     queued |-> 0, running |-> 0, finished |-> 0]}
    /\ cd \in IF fn # "create_dir" THEN {NoCall}
              ELSE {[pc |-> "running", p |-> p, frames |-> << Frame(p, TRUE, "put") >>,
                     result |-> FALSE, log |-> << >>] : p \in {Docs, OldMd}}

ClientNext ==
    \/ Attempt
    \/ CalculateBackoff
    \/ ListPage
    \/ ListPageFails
    \/ UploadParent
    \/ UploadParentFails
    \/ UploadUrl
    \/ UploadUrlFails
    \/ UploadBytes
    \/ UploadBytesFails
    \/ UploadRename
    \/ UploadRenameFails
    \/ ShouldIgnore
    \/ ShowStatus
    \/ PoolOpen
    \/ WorkerStart
    \/ WorkerFinish
    \/ PoolExit
    \/ CreateDirPut
    \/ CreateDirExists

ClientSpec == ClientInit /\ [][ClientNext]_vars

\* ===================================================================
\* Properties of the phases of sync_save and sync_load
\* ===================================================================

\* How many times path p occurs in the sequence s.
Count(s, p) == Cardinality({k \in 1..Len(s) : s[k] = p})

AnyCall(phase) == \E p \in AllPaths : calls[p][phase] > 0

\* Every handler of the given phase of this run has been started and has
\* returned: one per occurrence of a path in the phase's item list.
PhaseReturned(phase, items) ==
    \A p \in AllPaths :
        /\ calls[p][phase] = Count(items, p)
        /\ returns[p][phase] = Count(items, p)

\* C1: in sync_save no create_cloud_dir handler starts before every
\* remove_cloud handler of the run has returned, and no upload handler starts
\* before every create_cloud_dir handler (and every remove_cloud handler) has
\* returned; so a path in the (dir,file) or (file,dir) cell has its cloud
\* entry removed before it is recreated or uploaded.
SaveBarriers ==
    op = "save" =>
        LET m == items_need_for_update IN
        /\ AnyCall("mkdir") => PhaseReturned("remove", SaveRemoveItems(m))
        /\ AnyCall("transfer") =>
              /\ PhaseReturned("remove", SaveRemoveItems(m))
              /\ PhaseReturned("mkdir", SaveMkdirItems(m))
        /\ \A p \in AllPaths :
              /\ Count(m["dir"]["file"] \o m["file"]["dir"], p) > 0
              /\ calls[p]["mkdir"] + calls[p]["transfer"] > 0
              => returns[p]["remove"] = 1

\* A save with at least two removals whose (dir,file) path is being
\* recreated after its removal returned.
SaveBarriersSeen ==
    /\ op = "save"
    /\ pc = "mkdir"
    /\ Len(SaveRemoveItems(items_need_for_update)) >= 2
    /\ \E i \in DOMAIN hstate :
          /\ hstate[i] = "running"
          /\ Count(items_need_for_update["dir"]["file"], batch[i]) = 1
          /\ returns[batch[i]]["remove"] = 1

\* C2: in sync_load no create_local_dir handler starts before every
\* remove_local handler of the run has returned, and no download handler
\* starts before every create_local_dir handler has returned; when the cloud
\* holds docs with docs/old.md and the local side has no docs, docs is created
\* (the handler has returned) before the download of docs/old.md starts.
LoadBarriers ==
    op = "load" =>
        LET m == items_need_for_update IN
        /\ AnyCall("mkdir") => PhaseReturned("remove", LoadRemoveItems(m))
        /\ AnyCall("transfer") =>
              /\ PhaseReturned("remove", LoadRemoveItems(m))
              /\ PhaseReturned("mkdir", LoadMkdirItems(m))
        /\ /\ lfs0[Docs].kind = "empty"
           /\ cfs0[Docs].kind = "dir"
           /\ cfs0[OldMd].kind = "file"
           /\ calls[OldMd]["transfer"] > 0
           => /\ returns[Docs]["mkdir"] = 1
              /\ lfs[Docs].kind = "dir"

\* A load that is downloading docs/old.md into the docs it created.
LoadBarriersSeen ==
    /\ op = "load"
    /\ pc = "transfer"
    /\ lfs0[Docs].kind = "empty"
    /\ cfs0[Docs].kind = "dir"
    /\ returns[Docs]["mkdir"] = 1
    /\ \E i \in DOMAIN hstate : hstate[i] = "running" /\ batch[i] = OldMd
    /\ Len(LoadRemoveItems(items_need_for_update)) >= 1

\* ===================================================================
\* Properties of the classification
\* ===================================================================

\* The cells of the matrix that hold path p.
CellsOf(p) ==
    {c \in Kinds \X Kinds : Count(items_need_for_update[c[1]][c[2]], p) > 0}

\* C5: the matrix is empty until the classification; when the classification
\* has just ended every path is filed into at most one cell and at most once,
\* and the cell's indices are the local kind and the cloud kind of the item.
FiledOnce ==
    /\ pc \in {"idle", "aborted", "scanned", "cloud_scan"} =>
          items_need_for_update = EmptyMatrix
    /\ pc = "classified" =>
          \A p \in AllPaths :
              /\ Cardinality(CellsOf(p)) <= 1
              /\ \A c \in CellsOf(p) :
                    /\ Count(items_need_for_update[c[1]][c[2]], p) = 1
                    /\ sync_items[p].present
                    /\ c = << sync_items[p].local_type, sync_items[p].cloud_type >>

\* A classification that filled at least three different cells, one of them
\* with two kinds of entry.
FiledOnceSeen ==
    /\ pc = "classified"
    /\ Cardinality(UNION {CellsOf(p) : p \in AllPaths}) >= 3
    /\ \E p \in AllPaths : CellsOf(p) \cap {<< "dir", "file" >>, << "file", "dir" >>} # {}

\* The two sides of an item differ: the kinds differ, or both are files
\* with different hashes.
Differs(item) ==
    \/ item.local_type # item.cloud_type
    \/ /\ item.local_type = "file"
       /\ item.cloud_type = "file"
       /\ item.local_md5 # item.cloud_md5

\* C6: an item is filed iff its kinds differ or both sides are files with
\* different hashes; the (empty,empty) and (dir,dir) cells are always empty
\* and the (file,file) cell holds only hash mismatches.
FiledIffDiffers ==
    /\ items_need_for_update["empty"]["empty"] = << >>
    /\ items_need_for_update["dir"]["dir"] = << >>
    /\ pc = "classified" =>
          /\ \A p \in AllPaths :
                CellsOf(p) # {} <=> (sync_items[p].present /\ Differs(sync_items[p]))
          /\ \A p \in AllPaths :
                Count(items_need_for_update["file"]["file"], p) > 0 =>
                    sync_items[p].local_md5 # sync_items[p].cloud_md5

\* A classification with a hash mismatch filed, an identical file left
\* unfiled and a directory present on both sides left unfiled.
FiledIffDiffersSeen ==
    /\ pc = "classified"
    /\ items_need_for_update["file"]["file"] # << >>
    /\ \E p \in AllPaths :
          /\ sync_items[p].present
          /\ sync_items[p].local_type = "file"
          /\ sync_items[p].cloud_type = "file"
          /\ CellsOf(p) = {}
    /\ \E p \in AllPaths :
          /\ sync_items[p].present
          /\ sync_items[p].local_type = "dir"
          /\ sync_items[p].cloud_type = "dir"
          /\ CellsOf(p) = {}

\* ===================================================================
\* Properties of the operations a run performs
\* ===================================================================

\* 1 when path p is filed into one of the given cells, else 0.
FiledIn(p, cells) == IF CellsOf(p) \cap cells # {} THEN 1 ELSE 0

\* C7: when a sync_save has finished, each path has received remove_cloud
\* once iff it is in (empty,file), (empty,dir), (file,dir) or (dir,file),
\* create_cloud_dir once iff it is in (dir,empty) or (dir,file), upload once
\* iff it is in (file,empty), (file,dir) or (file,file), and an unfiled path
\* has received nothing; no operation is ever invoked twice on a path.
SaveOperations ==
    op = "save" =>
        \A p \in AllPaths :
            /\ \A ph \in {"remove", "mkdir", "transfer"} : calls[p][ph] <= 1
            /\ RunDone =>
                  /\ calls[p]["remove"] =
                        FiledIn(p, {<< "empty", "file" >>, << "empty", "dir" >>,
                                    << "file", "dir" >>, << "dir", "file" >>})
                  /\ calls[p]["mkdir"] =
                        FiledIn(p, {<< "dir", "empty" >>, << "dir", "file" >>})
                  /\ calls[p]["transfer"] =
                        FiledIn(p, {<< "file", "empty" >>, << "file", "dir" >>,
                                    << "file", "file" >>})

\* A finished save that removed and recreated a (dir,file) path, uploaded
\* a file the cloud lacked and left an unfiled item alone.
SaveOperationsSeen ==
    /\ op = "save"
    /\ RunDone
    /\ \E p \in AllPaths :
          /\ CellsOf(p) = {<< "dir", "file" >>}
          /\ calls[p]["remove"] = 1
          /\ calls[p]["mkdir"] = 1
    /\ \E p \in AllPaths : CellsOf(p) = {<< "file", "empty" >>} /\ calls[p]["transfer"] = 1
    /\ \E p \in AllPaths :
          /\ sync_items[p].present
          /\ CellsOf(p) = {}
          /\ calls[p] = [remove |-> 0, mkdir |-> 0, transfer |-> 0]

\* C8: when a sync_load has finished, each path has received remove_local
\* once iff it is in (file,empty), (file,dir), (dir,empty) or (dir,file),
\* create_local_dir once iff it is in (empty,dir) or (file,dir), download
\* once iff it is in (empty,file), (dir,file) or (file,file), and an unfiled
\* path has received nothing; no operation is ever invoked twice on a path.
LoadOperations ==
    op = "load" =>
        \A p \in AllPaths :
            /\ \A ph \in {"remove", "mkdir", "transfer"} : calls[p][ph] <= 1
            /\ RunDone =>
                  /\ calls[p]["remove"] =
                        FiledIn(p, {<< "file", "empty" >>, << "file", "dir" >>,
                                    << "dir", "empty" >>, << "dir", "file" >>})
                  /\ calls[p]["mkdir"] =
                        FiledIn(p, {<< "empty", "dir" >>, << "file", "dir" >>})
                  /\ calls[p]["transfer"] =
                        FiledIn(p, {<< "empty", "file" >>, << "dir", "file" >>,
                                    << "file", "file" >>})

\* A finished load that removed a local directory and downloaded the file
\* the cloud holds in its place, removed a file the cloud lacked and left an
\* unfiled item alone.
LoadOperationsSeen ==
    /\ op = "load"
    /\ RunDone
    /\ \E p \in AllPaths :
          /\ CellsOf(p) = {<< "dir", "file" >>}
          /\ calls[p]["remove"] = 1
          /\ calls[p]["transfer"] = 1
    /\ \E p \in AllPaths : CellsOf(p) = {<< "file", "empty" >>} /\ calls[p]["remove"] = 1
    /\ \E p \in AllPaths :
          /\ sync_items[p].present
          /\ CellsOf(p) = {}
          /\ calls[p] = [remove |-> 0, mkdir |-> 0, transfer |-> 0]

\* ===================================================================
\* Scenarios
\* ===================================================================

Uploads == {p \in AllPaths : Count(SaveUploadItems(items_need_for_update), p) > 0}

\* The run is a save of a project that holds a.txt and b.txt with the same
\* content (and possibly a .syncignore) against a cloud folder that holds
\* a.txt with that content and nothing else.
TwinFiles ==
    /\ op = "save"
    /\ lfs0[Root] = Dir
    /\ \E h \in Hashes :
          /\ lfs0[ATxt] = File(h)
          /\ lfs0[BTxt] = File(h)
          /\ cfs0[ATxt] = File(h)
    /\ \A q \in AllPaths \ {Root, ATxt, BTxt, SyncIgnoreFile} : lfs0[q] = Absent
    /\ cfs0[Root] = Dir
    /\ \A q \in CloudPaths \ {Root, ATxt} : cfs0[q] = Absent

FailedListingKeepsLocal ==
    op = "load" =>
        \A p \in AllPaths \ {Root} :
            /\ Parent(p) \in list_failed
            /\ lfs0[p].kind # "empty"
            /\ cfs0[p] = lfs0[p]
            => /\ calls[p]["remove"] = 0
               /\ lfs[p].kind # "empty"

\* C3 as the specification words it: a save that follows a save whose every
\* request succeeded, with no change of the local tree in between, and whose
\* own listing succeeds, files nothing.
SecondSaveFilesNothing ==
    /\ op = "save"
    /\ pc = "classified"
    /\ allOk
    /\ prev.op = "save"
    /\ prev.ok
    /\ ~prev.wiped
    => items_need_for_update = EmptyMatrix

\* The files and directories of the project itself.
UserPaths == {ATxt, BTxt, Docs, OldMd}

\* C4 as the specification words it, for the project's own files: after a
\* save whose every request succeeded, the emptying of the local root and a
\* load whose every request succeeded, each path the save's scan walked is
\* back as it was before the save and no other path exists.
RoundTripReproduces ==
    /\ op = "load"
    /\ RunDone
    /\ allOk
    /\ prev.op = "save"
    /\ prev.ok
    /\ prev.wiped
    => \A p \in UserPaths :
          lfs[p] = IF Walked(prev.lfs0, prev.rules, p) THEN prev.lfs0[p] ELSE Absent

\* ===================================================================
\* Properties of _make_request
\* ===================================================================

\* The attempt that has just ended was not the last one allowed.
RetriesLeft == Len(sent) <= rq.max_retries

\* C11 as the specification words it: whatever the outcomes, _make_request
\* issues at most max_retries + 1 requests, one per value of the attempt
\* counter, and ends by returning; with max_retries = 2 and a 500 to every
\* attempt it returns after exactly 3 requests.
RequestsBoundedAndReturns ==
    fn = "_make_request" =>
        /\ Len(sent) <= rq.max_retries + 1
        /\ rq.pc = "loop" => Len(sent) = rq.attempt
        /\ rq.pc # "raised"
        /\ /\ rq.pc = "returned"
           /\ rq.max_retries = 2
           /\ rq.result = Answer(500, NotPassed)
           /\ \A k \in 1..Len(slept) : slept[k] \in {calculate_backoff_time(k - 1, j) : j \in JitterPercents}
           => Len(sent) = 3

\* C12: when _make_request has returned, it returned the answer of the
\* last attempt whenever that attempt was answered (also with 429 or 5xx
\* after the last retry), and None exactly when the last attempt raised an
\* exception.
ReturnsLastResponse ==
    fn = "_make_request" /\ rq.pc = "returned" =>
        /\ rq.outcome.kind = "response" => rq.result = rq.outcome
        /\ rq.result = ReturnedNone <=> rq.outcome.kind \in {"retryable", "other"}

\* Retries were exhausted and the 429 of the last attempt was returned.
ReturnsLastResponseSeen ==
    /\ fn = "_make_request"
    /\ rq.pc = "returned"
    /\ rq.max_retries = 2
    /\ Len(sent) = 3
    /\ rq.result.kind = "response"
    /\ rq.result.status = 429

\* The wait the specification gives for a Retry-After header, in seconds.
SpecifiedWait(header) ==
    IF header \in DOMAIN IntText THEN Min(IntText[header], 60) ELSE 1

\* C13 as the specification words it: after a 429 with retries left,
\* _make_request has slept min(Retry-After, 60) seconds (1 when the header
\* is missing or no integer), once and with nothing added, and goes on to
\* the next attempt; Retry-After "2" then 200 gives one sleep of 2 seconds
\* and 2 requests.
WaitsRetryAfter ==
    /\ fn = "_make_request"
    /\ rq.outcome.kind = "response"
    /\ rq.outcome.status = 429
    /\ RetriesLeft
    => /\ rq.pc = "loop"
       /\ Len(slept) = Len(sent)
       /\ slept[Len(slept)] = 100 * SpecifiedWait(rq.outcome.retry_after)

\* C14 as the specification words it: every request of a call equals the
\* first one in method, URL, query parameters, headers and timeout.
SameRequestEachAttempt ==
    fn = "_make_request" => \A k \in 1..Len(sent) : sent[k] = sent[1]

\* C15: when an attempt is answered with a status that is neither 429
\* nor >= 500, or raises an exception outside the retryable tuple,
\* _make_request returns at once (the answer, or None) without a sleep after
\* that attempt; when it was the first attempt there was one request and no
\* sleep at all.
NoRetryOnOtherFailure ==
    /\ fn = "_make_request"
    /\ \/ rq.outcome.kind = "other"
       \/ rq.outcome.kind = "response" /\ rq.outcome.status # 429 /\ rq.outcome.status < 500
    => /\ rq.pc = "returned"
       /\ rq.result = IF rq.outcome.kind = "other" THEN ReturnedNone ELSE rq.outcome
       /\ Len(slept) = Len(sent) - 1
       /\ rq.attempt = 0 => Len(sent) = 1 /\ slept = << >>

\* A 404 to the first attempt of a call that had retries: one request, no
\* sleep, the 404 returned.
NoRetryOnOtherFailureSeen ==
    /\ fn = "_make_request"
    /\ rq.pc = "returned"
    /\ rq.max_retries = 2
    /\ rq.result = Answer(404, NotPassed)
    /\ Len(sent) = 1
    /\ slept = << >>

\* ===================================================================
\* Properties of _calculate_backoff_time and of list
\* ===================================================================

\* The facts about the delay that hold with either reading of its bound:
\* the base is min(2^attempt, 32), non-decreasing and at most 32; the delay
\* is between 1.1 and 1.5 times the base; for attempts 0..3 it is below
\* every delay of the next attempt, whatever jitters are drawn.
BackoffShape ==
    LET a == bo.attempt IN
    /\ base_delay(a) = Min(Pow2(a), 32)
    /\ base_delay(a) <= 32
    /\ base_delay(a) <= base_delay(a + 1)
    /\ 110 * base_delay(a) <= bo.result
    /\ bo.result <= 150 * base_delay(a)
    /\ a <= 3 => \A j \in JitterPercents : bo.result < calculate_backoff_time(a + 1, j)

\* C16 as the specification words it: the facts above, and the delay is
\* below 48 seconds.
BackoffBelow48 ==
    fn = "_calculate_backoff_time" /\ bo.pc = "returned" =>
        BackoffShape /\ bo.result < 4800

\* C16: the facts above, and the delay is never above 48 seconds.
BackoffAtMost48 ==
    fn = "_calculate_backoff_time" /\ bo.pc = "returned" =>
        BackoffShape /\ bo.result <= 4800

\* The delay of an attempt above the cap, with the largest jitter.
BackoffAtMost48Seen ==
    /\ fn = "_calculate_backoff_time"
    /\ bo.pc = "returned"
    /\ bo.attempt = 6
    /\ bo.result = 4800

\* The least number of pages that hold n items, one at least.
PagesFor(n, limit) == IF n = 0 THEN 1 ELSE (n + limit - 1) \div limit

\* C18: when every page request of list was answered, list returns the
\* items 1..n of the folder in server order, each once, after requests at
\* offsets 0, L, 2L, ... that stop with the page that completes the total or
\* is shorter than L; a folder of 5 with L = 3 takes 2 requests.
ListReturnsFolder ==
    fn = "list" /\ ls.pc = "returned" /\ ~ls.failed =>
        /\ ls.all_items = Range(1, ls.n)
        /\ Len(ls.offsets) = PagesFor(ls.n, ls.page_limit)
        /\ \A k \in 1..Len(ls.offsets) : ls.offsets[k] = (k - 1) * ls.page_limit
        /\ ls.n = 5 /\ ls.page_limit = 3 => Len(ls.offsets) = 2

\* The folder of 5 items listed with a page limit of 3.
ListReturnsFolderSeen ==
    /\ fn = "list"
    /\ ls.pc = "returned"
    /\ ~ls.failed
    /\ ls.n = 5
    /\ ls.page_limit = 3
    /\ Len(ls.all_items) = 5
    /\ ls.offsets = << 0, 3 >>

\* ===================================================================
\* Properties of upload
\* ===================================================================

PutsOf(log) == {k \in 1..Len(log) : log[k].op = "put"}

\* C17: a PUT of the bytes that ends in 429, in a 5xx status or in a
\* network failure is followed by another PUT before upload returns.
PutIsRetried ==
    fn = "upload" /\ up.pc = "returned" =>
        \A k \in PutsOf(up.log) :
            up.log[k].status \in {429, 500, 507, 0} =>
                \E j \in PutsOf(up.log) : j > k

Moved(log, p) == \E k \in 1..Len(log) : log[k] = Sent("move", p, 201)

NegationKeepsOneFile ==
    /\ fn = "should_ignore"
    /\ ig.pc = "returned"
    /\ ig.text = BuildIgnoreText
    /\ ~ig.is_directory
    => /\ ig.path = BuildKeep => ~ig.result
       /\ ig.path = BuildX => ig.result

\* The rules that should_ignore compares with the candidate and finds
\* matching, by their place in the file.
MatchingRules(rs, path, is_directory) ==
    {i \in 1..Len(rs) : (rs[i].is_directory => is_directory) /\ Matched(rs[i], path)}

Last(S) == CHOOSE i \in S : \A j \in S : j <= i

\* C21: should_ignore returns True iff some rule matches the candidate and
\* the last matching rule in file order is no negation, whatever the other
\* rules are and however specific the matching rules are.
LastMatchWins ==
    fn = "should_ignore" /\ ig.pc = "returned" =>
        LET rs == parse_rules(ig.text)
            M == MatchingRules(rs, ig.path, ig.is_directory)
        IN  ig.result <=> (M # {} /\ ~rs[Last(M)].negate)

\* build/keep.txt under "!build/keep.txt", "build": the negation is the more
\* specific rule, the later rule "build" decides.
LastMatchWinsSeen ==
    /\ fn = "should_ignore"
    /\ ig.pc = "returned"
    /\ ig.text = 5
    /\ ig.path = BuildKeep
    /\ ig.result

\* ===================================================================
\* Properties of the snapshot cache and of show_status
\* ===================================================================

\* What set_cache puts into the sections "files" and "dirs".
cache_data(items) ==
    [files |-> {p \in AllPaths : items[p].present /\ items[p].local_type = "file"},
     dirs |-> {p \in AllPaths : items[p].present /\ items[p].local_type = "dir"}]

\* C22: sync_save writes the cache once, after the local scan and before
\* the first cloud listing, from items that are all local files and
\* directories; sync_load leaves the cache file as it found it (as long as
\* nobody else empties the local folder meanwhile).
CacheWrittenBySaveOnly ==
    /\ op = "save" /\ pc = "scanned" =>
          /\ lfs[CacheFile] = lfs0[CacheFile]
          /\ scanned_folders = {} /\ current_batch = {}
          /\ LET d == cache_data(sync_items) IN
             /\ d.files \cup d.dirs = {p \in AllPaths : sync_items[p].present}
             /\ \A p \in d.files \cup d.dirs :
                   /\ Walked(lfs, rules, p)
                   /\ sync_items[p].cloud_type = "empty"
    /\ op = "save" /\ pc \notin {"idle", "aborted", "scanned"} /\ ~wiped =>
          lfs[CacheFile] = File(CacheContent(clock - 1))
    /\ op = "load" /\ ~wiped => lfs[CacheFile] = lfs0[CacheFile]

StatusOver == fn = "show_status" /\ st.pc \in {"returned", "raised"}

\* C23: show_status sends no request, lists no cloud folder, leaves no cloud
\* scan pending and learns no cloud state, whatever the cache and the local
\* tree hold.
StatusLeavesCloudAlone ==
    StatusOver =>
        /\ cfs = cfs0
        /\ sent = << >>
        /\ folders_to_scan = {} /\ scanned_folders = {} /\ current_batch = {}
        /\ calls = NoCalls
        /\ \A p \in AllPaths : sync_items[p].cloud_type = "empty"

\* A show_status that found a cache and scanned a local tree, next to a
\* cloud that holds files.
StatusLeavesCloudAloneSeen ==
    /\ StatusOver
    /\ st.scanned
    /\ sync_items[ATxt].present
    /\ cfs = SavedTwiceCloud

\* C24: show_status leaves every local file and directory as it found it.
StatusLeavesLocalAlone ==
    StatusOver => lfs = lfs0

\* C25: with a cache file that is missing, is no JSON, is empty or lacks a
\* section, show_status reports "no baseline", returns, and scans nothing.
NoBaselineWithoutCache ==
    StatusOver /\ get_cache(lfs0[CacheFile]) # "cache" =>
        /\ st.pc = "returned"
        /\ st.report = "no baseline"
        /\ ~st.scanned

\* ===================================================================
\* Properties of multythread_operation
\* ===================================================================

Phases == << "remove", "mkdir", "transfer" >>
PhaseRank(phase) == CHOOSE k \in 1..3 : Phases[k] = phase

\* C26: once a call of multythread_operation is over (the run has gone on to
\* a later phase, or the last call has returned), the handler has started
\* and returned once for every item the call was given, and never for a path
\* it was not given; a call without items starts no handler.
HandlersOncePerItem ==
    pc \in {"remove", "mkdir", "transfer"} =>
        /\ \A k \in 1..3 :
              (k < PhaseRank(pc) \/ (k = 3 /\ RunDone)) =>
                  PhaseReturned(Phases[k], PhaseItems(Phases[k]))
        /\ LET items == PhaseItems(pc) IN
              /\ \A p \in AllPaths :
                    /\ returns[p][pc] <= calls[p][pc]
                    /\ calls[p][pc] <= Count(items, p)
              /\ items = << >> => hstate = << >> /\ InFlight = {}

\* A finished run whose first call had two items at least and whose second
\* call had none.
HandlersOncePerItemSeen ==
    /\ RunDone
    /\ Len(PhaseItems("remove")) >= 2
    /\ PhaseItems("mkdir") = << >>
    /\ Len(PhaseItems("transfer")) >= 1
    /\ \A i \in DOMAIN hstate : hstate[i] = "done"

\* C27: the items of a batch are submitted in ascending order of cloud_path
\* (paths compare part by part), whatever order the cells hold them in, and
\* the pool starts them in that order; they may finish in another.
SubmittedInPathOrder ==
    pc \in {"remove", "mkdir", "transfer"} =>
        /\ LET items == PhaseItems(pc) IN
              /\ Len(batch) = Len(items)
              /\ \A p \in AllPaths : Count(batch, p) = Count(items, p)
        /\ \A i, j \in DOMAIN batch : i < j => PathLess(batch[i], batch[j])
        /\ \A i, j \in DOMAIN hstate :
              i < j /\ hstate[j] # "queued" => hstate[i] # "queued"

\* A batch the cells held in another order, whose second item has finished
\* while the first is still running.
SubmittedInPathOrderSeen ==
    /\ pc \in {"remove", "mkdir", "transfer"}
    /\ Len(batch) >= 2
    /\ batch # PhaseItems(pc)
    /\ hstate[1] = "running"
    /\ hstate[2] = "done"

\* ===================================================================
\* Properties of the handlers' failures
\* ===================================================================

\* C30: a remove_cloud whose DELETE failed, and a create_cloud_dir whose
\* create_dir returned False, leave the recorded state of every item as it
\* was.
FailedCallKeepsCloudKind ==
    [][ (RemoveCloudFails \/ \E i \in DOMAIN hstate : create_cloud_dir(i, "status"))
            => sync_items' = sync_items ]_vars

HandlerErrorKeepsRunGoing ==
    Raised =>
        /\ pc \in {"remove", "mkdir", "transfer"}
        /\ PoolJoined => \A p \in AllPaths : calls[p][pc] = Count(PhaseItems(pc), p)

\* ===================================================================
\* Properties of the recorded states and of the start of a run
\* ===================================================================

\* C31: an ItemState whose type is 'empty' has the empty digest, also when
\* it became 'empty' through remove_local or remove_cloud.
AbsentStateIsBlank ==
    \A p \in AllPaths :
        sync_items[p].present =>
            /\ sync_items[p].local_type = "empty" => sync_items[p].local_md5 = 0
            /\ sync_items[p].cloud_type = "empty" => sync_items[p].cloud_md5 = 0

\* The run has issued no listing and started no handler.
NothingRequested ==
    /\ scanned_folders = {} /\ current_batch = {} /\ folders_to_scan = {}
    /\ list_failed = {}
    /\ calls = NoCalls
    /\ hstate = << >>

\* C32: a run that finds a file at the root, or a directory at .syncignore,
\* has ended at once, before any cache write, cloud request or handler, and
\* both trees are as they were; a run that finds no root has created it and
\* has gone on.
RootConflictAborts ==
    op # "none" =>
        /\ (lfs0[Root].kind = "file" \/ lfs0[SyncIgnoreFile].kind = "dir") =>
              /\ pc = "aborted"
              /\ NothingRequested
              /\ lfs = lfs0 /\ cfs = cfs0
              /\ items_need_for_update = EmptyMatrix
        /\ pc = "aborted" =>
              lfs0[Root].kind = "file" \/ lfs0[SyncIgnoreFile].kind = "dir"
        /\ lfs0[Root].kind = "empty" => pc # "aborted" /\ lfs[Root].kind = "dir"

\* A save that ended at once on a root that is a file, after a load that
\* had ended on it too.
RootConflictAbortsSeen ==
    /\ op = "save" /\ pc = "aborted" /\ lfs0[Root].kind = "file"
    /\ prev.op = "load" /\ ~prev.ok

\* ===================================================================
\* Properties of the cloud scan
\* ===================================================================

\* C34: while the cloud scan runs, a step changes the entry of a path only
\* when the worker of the path's folder processes its listing, which happens
\* once (the folder enters scanned_folders and stays there): so an entry is
\* created at most once and its cloud state is written by one worker; an
\* entry the local scan made stays, with its local state; and no handler is
\* submitted while a folder is pending or a listing worker is in flight.
ScanWritesEachEntryOnce ==
    /\ [](hstate # << >> => current_batch = {} /\ folders_to_scan = {})
    /\ [][ (pc = "cloud_scan" /\ pc' = "cloud_scan") =>
             /\ scanned_folders \subseteq scanned_folders'
             /\ \A p \in AllPaths :
                   sync_items'[p] # sync_items[p] =>
                       /\ Parent(p) \in scanned_folders' \ scanned_folders
                       /\ sync_items'[p].present
                       /\ sync_items[p].present =>
                             /\ sync_items'[p].local_type = sync_items[p].local_type
                             /\ sync_items'[p].local_md5 = sync_items[p].local_md5
       ]_vars

\* Two workers of one wave, docs and docs.tmp: the worker of docs has written
\* the cloud state of docs/old.md, an entry of the local scan, while the
\* worker of docs.tmp is still in flight.
ScanWritesEachEntryOnceSeen ==
    /\ pc = "cloud_scan"
    /\ TmpPath(Docs) \in current_batch
    /\ Docs \in scanned_folders
    /\ sync_items[OldMd] =
          [present |-> TRUE, local_type |-> "file", local_md5 |-> 1,
           cloud_type |-> "file", cloud_md5 |-> 2]

\* ===================================================================
\* Frame of the action phases
\* ===================================================================

\* C38: a step of the action phases of sync_save leaves the local tree as it
\* is, and a step of the action phases of sync_load leaves the cloud tree as
\* it is (the deletion of the project folder between two commands is no step
\* of a command).
ActionsKeepOtherSide ==
    [][ ( /\ pc \in {"remove", "mkdir", "transfer"}
          /\ pc' \in {"remove", "mkdir", "transfer"}
          /\ wiped' = wiped ) =>
            /\ op = "save" => lfs' = lfs
            /\ op = "load" => cfs' = cfs
      ]_vars

\* A load that changed the local tree has been followed by a save that has
\* changed the cloud tree.
ActionsKeepOtherSideSeen ==
    /\ RunDone /\ op = "save" /\ ~wiped
    /\ cfs # cfs0
    /\ prev.op = "load" /\ prev.lfs0 # lfs0

\* A directory of the path, the path included, is ignored.
UnderIgnored(p) ==
    \E n \in 1..Len(p) : should_ignore(rules, SubSeq(p, 1, n), TRUE)

\* The root, and the cloud directories no part of whose path is ignored.
FoldersToList ==
    {Root} \cup {d \in DOMAIN cfs : cfs[d].kind = "dir" /\ ~UnderIgnored(d)}

\* The folders the scan has taken up so far.
TakenUp == scanned_folders \cup current_batch \cup folders_to_scan

\* C33: the folders of a wave have one depth and those found for the next
\* wave lie one level deeper; no folder is taken up twice; a wave being
\* listed holds, with those of its folders already done, every folder of its
\* depth; when the scan is over every folder to list has been listed; an
\* ignored directory is never taken up, and neither it nor anything beneath
\* it has a SyncItem.
ScanListsTreeByWaves ==
    /\ pc = "cloud_scan" =>
          /\ \A f \in current_batch :
                /\ f \notin scanned_folders
                /\ \A g \in current_batch : Len(g) = Len(f)
                /\ \A g \in folders_to_scan : Len(g) = Len(f) + 1
                /\ \A d \in FoldersToList : Len(d) = Len(f) => d \in TakenUp
          /\ TakenUp \subseteq FoldersToList
    /\ pc = "classified" => scanned_folders = FoldersToList
    /\ pc \in {"cloud_scan", "classified"} =>
          \A p \in AllPaths :
              (UnderIgnored(p) /\ cfs[p].kind = "dir") \/ UnderIgnored(Parent(p)) =>
                  p \notin TakenUp /\ ~sync_items[p].present

ScanListsTreeByWavesUnfailed == list_failed = {} => ScanListsTreeByWaves

\* ===================================================================
\* Properties of the result of a save
\* ===================================================================

\* C35: after a sync_save all of whose API calls succeeded, every local file
\* the scan reaches is a file of the same content in the cloud, a file next
\* to its name + ".tmp" included. (The cache file, written after the local
\* scan, is left out of the statement: see C3.)
SaveMirrorsLocalFiles ==
    (RunDone /\ op = "save" /\ allOk /\ ~wiped) =>
        \A p \in AllPaths \ {CacheFile} :
            (lfs[p].kind = "file" /\ Walked(lfs, rules, p)) =>
                cfs[p] = File(lfs[p].md5)

\* ===================================================================
\* Properties of ignored entries
\* ===================================================================

\* should_ignore is true of p, or p lies beneath an ignored directory; kind
\* is what p is on the side looked at.
IgnoredEntry(rs, p, kind) ==
    \/ should_ignore(rs, p, kind = "dir")
    \/ \E n \in 1..(Len(p) - 1) : should_ignore(rs, SubSeq(p, 1, n), TRUE)

\* C40: while a command runs under the rules it read, an entry that was
\* there and ignored when the command began is there unchanged, on both
\* sides.
IgnoredEntriesKept ==
    (pc \in {"classified", "remove", "mkdir", "transfer"} /\ ~wiped) =>
        \A p \in AllPaths :
            /\ (lfs0[p].kind # "empty" /\ IgnoredEntry(rules, p, lfs0[p].kind)) =>
                  lfs[p] = lfs0[p]
            /\ (cfs0[p].kind # "empty" /\ IgnoredEntry(rules, p, cfs0[p].kind)) =>
                  cfs[p] = cfs0[p]

\* ===================================================================
\* show_status after a save
\* ===================================================================

\* The comparison of show_status: cached are the items set_cache wrote down,
\* current the items of the local scan show_status has just made.
StatusChanges(cached, current) ==
    LET cache_files == cache_data(cached).files
        cache_dirs == cache_data(cached).dirs
        current_files == cache_data(current).files
        current_dirs == cache_data(current).dirs
    IN  [new_files |-> current_files \ cache_files,
         removed_files |-> cache_files \ current_files,
         new_dirs |-> current_dirs \ cache_dirs,
         removed_dirs |-> cache_dirs \ current_dirs,
         changed_files |-> {p \in cache_files \cap current_files :
                               cached[p].local_md5 # current[p].local_md5}]

\* "no changes found": every one of the five sets is empty.
InSync(c) ==
    /\ c.new_files = {} /\ c.removed_files = {}
    /\ c.new_dirs = {} /\ c.removed_dirs = {}
    /\ c.changed_files = {}

\* C39: when a sync_save all of whose calls succeeded is over, a show_status
\* of the untouched project finds nothing new, removed or changed. (The
\* cache holds the local states of the save's items, which no step of a save
\* rewrites; show_status reads the rules and scans the tree as they are now.)
StatusAfterSaveInSync ==
    (RunDone /\ op = "save" /\ allOk /\ ~wiped) =>
        InSync(StatusChanges(sync_items,
                   scan_local_items(lfs, parse_rules(lfs[SyncIgnoreFile].md5))))

\* ===================================================================
\* Properties of the clean-up of upload and of create_dir
\* ===================================================================

\* The bytes were stored under p + ".tmp": a PUT was answered 201 or 202.
Stored(log) == {k \in PutsOf(log) : log[k].status \in {201, 202}}

\* C36: an upload that has stored the bytes under p + ".tmp" never ends in
\* an exception; when it has returned False, the last request it made, after
\* the failed move, is a remove of p + ".tmp", and whether that remove
\* succeeded or not the result is False.
UploadFailureCleansUp ==
    (fn = "upload" /\ Stored(up.log) # {}) =>
        /\ up.pc # "raised"
        /\ (up.pc = "returned" /\ ~up.result) =>
              LET n == Len(up.log) IN
              /\ up.log[n].op = "remove" /\ up.log[n].path = TmpPath(up.p)
              /\ up.log[n].status \in {204, 500}
              /\ up.log[n - 1].op = "move" /\ up.log[n - 1].status # 201
              /\ \A k \in Stored(up.log) : k < n - 1
        /\ \A k \in 1..Len(up.log) :
              up.log[k].op = "remove" => up.pc = "returned" /\ ~up.result

\* An upload whose move failed and whose remove failed too: the temporary
\* object is still in the cloud and the result is False.
UploadFailureCleansUpSeen ==
    /\ fn = "upload"
    /\ up.pc = "returned" /\ ~up.result
    /\ Stored(up.log) # {}
    /\ up.log[Len(up.log)] = Sent("remove", TmpPath(up.p), 500)
    /\ cfs[TmpPath(up.p)] = File(lfs[up.p].md5)

\* The requests of a call of create_dir for path, by HTTP method.
RequestsFor(log, method, path) ==
    {k \in 1..Len(log) : log[k].op = method /\ log[k].path = path}

\* The last request for path and the answer to the exists check after it.
LastPut(log, path) ==
    CHOOSE k \in RequestsFor(log, "PUT", path) :
        \A j \in RequestsFor(log, "PUT", path) : j <= k
ReportedExisting(log, path) ==
    \E k \in RequestsFor(log, "GET", path) :
        k > LastPut(log, path) /\ log[k].status = 200

\* create_dir(p) returns True exactly when its PUT of p was answered 201,
\* or 409 with p reported as existing.
CreateDirResult ==
    (fn = "create_dir" /\ cd.pc = "returned") =>
        (cd.result <=>
            LET status == cd.log[LastPut(cd.log, cd.p)].status
            IN  status = 201 \/ (status = 409 /\ ReportedExisting(cd.log, cd.p)))

\* create_dir(p) retries p at most once, after its parent was created, and
\* the retry creates no parent.
CreateDirRetriesOnce ==
    fn = "create_dir" =>
        /\ Cardinality(RequestsFor(cd.log, "PUT", cd.p)) <= 2
        /\ \A k \in DOMAIN cd.frames :
              cd.frames[k].at \in {"parent", "retry"} => cd.frames[k].create_parent

\* The requests of create_dir(p) are bounded by the depth of p: two PUTs and
\* two exists checks for p and for each folder above it.
CreateDirRequestsBounded ==
    fn = "create_dir" => Len(cd.log) <= 4 * (Len(cd.p) + 1)

\* C37: create_dir(p) returns True exactly when the PUT answered 201 or
\* answered 409 with p reported as existing; on a 409 with p missing it
\* creates the parent and then retries p once without further parent
\* recursion, so that whatever the server answers the number of requests is
\* bounded by the depth of p.
CreateDirSettles ==
    /\ CreateDirResult
    /\ CreateDirRetriesOnce
    /\ CreateDirRequestsBounded

====
